---- MODULE Spec2Model ----
(***************************************************************************)
(* A model of the GeoluxCamera driver (src/src/GeoluxCamera.cpp): the      *)
(* chunked image transfer engine (transferImage), the response classifier  *)
(* (waitResponse) and the chunk fetcher (getImageChunk), each run against  *)
(* a model of the serial transport and of the camera behind it.            *)
(*                                                                         *)
(* Every blocking call of the driver is cut at its busy-waits: one action  *)
(* is the code that runs from one wait to the next.  The millisecond clock *)
(* (millis()) advances only inside the waits.                              *)
(***************************************************************************)
EXTENDS Integers, Sequences, FiniteSets, TLC

VARIABLES
    \* ---- the clock and the transport (Stream* _stream) and the camera behind it
    now,                \* millis()
    wire,               \* bytes the camera has sent that the driver has not read yet
    delivered,          \* how many bytes the transport has handed to the driver
    img,                \* the image held by the camera (its real payload bytes)
    pad,                \* the byte the camera sends beyond the end of the image
    hdr,                \* the two junk bytes that head every get_image response
    latency,            \* ms before the first byte of a response is available
    stallKind,          \* "none", "late" (one wait times out) or "forever"
    stallAt,            \* the transport stalls once it has delivered this many bytes
    stallDone,          \* the "late" stall has happened
    lastSent,           \* value of the last byte the camera put on the wire (-1: none)
    sentEnd,            \* the camera has put 0xFF 0xD9 on the wire, adjacent
    \* ---- transferImage: parameters, locals, position, sink
    pc,
    image_size,
    chunk_size,
    total_bytes_read,
    total_bytes_written,
    bytes_remaining,
    chunk_number,
    start_next_chunk,
    prev_bytes,
    eof,
    start_xfer_millis,
    bytesToRead,
    bytes_read,
    bytes_written,
    i,
    sink,               \* what xferStream->write() has received, in order
    ret,                \* the value returned (-1 until the call returns)
    cmd,                \* the last ranged-read command sent: <<offset, length>>
    ncmd,               \* how many ranged-read commands were sent
    \* ---- history of the session, for stating the properties
    eofBy,              \* what set eof last: "none", "zero" or "marker"
    eofEver,            \* eof has been set at some point of the session
    zeroSeen,           \* a zero byte arrived after image_size bytes had been written
    lastRead,           \* the byte the session read last (-1: none)
    payload,            \* the bytes read that are not header bytes, in arrival order
    timeouts,           \* how many waits of the session ran into their timeout
    \* ---- the receive buffer of the stream, for the calls that count it
    rx,                 \* bytes that have arrived and wait to be read (available())
    sent,               \* how many bytes the peer has sent during the call
    \* ---- waitResponse: parameters, locals, history
    data,               \* String& data, as a sequence of character codes
    index,
    timeout_ms,
    startMillis,
    terms,              \* <<r1, r2, r3, r4>>; <<>> stands for a null pointer
    nread,              \* how many bytes the call has read from the stream
    appended,           \* how many of them it appended to data
    lastChar,           \* the last character appended (-1: none)
    lastReadAt,         \* millis() at the last read (-1: none)
    rxAt,               \* for each byte of rx, the earliest millis() it can have arrived at
    lastArrivedAt,      \* that time, for the byte read last (-1: none)
    \* ---- getImageChunk: parameters, locals, and the stream's read timeout
    buf,                \* what has been stored in uint8_t* buf, in order
    offset,
    length,
    streamTimeout,      \* _stream->getTimeout()
    prev_timeout,
    entry_timeout,      \* _stream->getTimeout() when the call was entered
    firstBytes,         \* _stream->available() when the wait for the response ended (-1: not yet)
    \* ---- waitForReady: parameters and locals
    initial_delay,
    timeout,
    camera_status,
    start_millis,
    \* ---- waitForReady: history
    nqueries,           \* calls of getStatus so far
    recent,             \* the statuses they returned, in order
    queryAt,            \* millis() when the last getStatus was called (-1: none)
    answerAt,           \* millis() when it returned (-1: none)
    sawTerminal,        \* some getStatus returned OK or NONE
    \* ---- sendCommand
    items,              \* what streamWrite is called with: "#", cmd..., "\r\n"
    nprinted,           \* how many of them have been printed
    out,                \* the characters printed on _stream so far
    flushed,            \* _stream->flush() has been called
    outAtFlush,         \* the characters printed when it was called
    call,               \* the setter that calls sendCommand: [setter, overload, mode]
    \* ---- getCameraInfoString / getCameraInfoInt: parameters and locals
    variant,            \* "string" or "int"
    searchStartTag,
    searchEndTag,
    numberSkips,
    searchSkipTag,
    skips,
    scanBuf,            \* the characters the running find() has read
    resp,               \* the characters read up to searchEndTag (String resp / char buf[11])
    \* ---- getCameraInfoString / getCameraInfoInt: history
    dump,               \* the get_info response the camera sends
    found               \* the start tag was found

transportVars == <<now, wire, delivered, img, pad, hdr, latency, stallKind,
                   stallAt, stallDone, lastSent, sentEnd>>
xferVars == <<pc, image_size, chunk_size, total_bytes_read, total_bytes_written,
              bytes_remaining, chunk_number, start_next_chunk, prev_bytes, eof,
              start_xfer_millis, bytesToRead, bytes_read, bytes_written, i, sink,
              ret, cmd, ncmd, eofBy, eofEver, zeroSeen, lastRead, payload, timeouts>>
wrVars == <<data, index, timeout_ms, startMillis, terms, nread, appended, lastChar,
            lastReadAt, rxAt, lastArrivedAt>>
chunkVars == <<buf, offset, length, streamTimeout, prev_timeout, entry_timeout, firstBytes>>
readyVars == <<initial_delay, timeout, camera_status, start_millis, nqueries, recent,
               queryAt, answerAt, sawTerminal>>
\* the variables of the operations modelled after getImageChunk
cmdVars == <<items, nprinted, out, flushed, outAtFlush, call>>
infoVars == <<variant, searchStartTag, searchEndTag, numberSkips, searchSkipTag, skips,
              scanBuf, resp, dump, found>>
restVars == <<readyVars, cmdVars, infoVars>>
vars == <<transportVars, xferVars, rx, sent, wrVars, chunkVars, restVars>>

\* what the actions of transferImage leave alone
XferFrame == UNCHANGED <<rx, sent, wrVars, chunkVars, restVars>>

-----------------------------------------------------------------------------
(* Program constants *)

\* int32_t start_data_byte = 2
start_data_byte == 2
\* int32_t extra_read_buff = 12
extra_read_buff == 12
\* while (... millis() - start_xfer_millis < 120000L)
XferDeadline == 120000
\* while (!_stream->available() && millis() - start_command_millis < 5000L)
ResponseTimeout == 5000
\* while (!_stream->available() && millis() - start_avail_time < 10)
CharTimeout == 10
\* #define DEFAULT_XFER_CHUNK_SIZE 16384
DEFAULT_XFER_CHUNK_SIZE == 16384
\* the JPEG tags the engine looks for: 0xFF 0xD8 (start), 0xFF 0xD9 (end)
TagLead == 255
TagStart == 216
TagEnd == 217

(* Bounds of the model *)

\* the longest image the camera holds
MaxImageSize == 3
\* the longest body of a JPEG frame (start tag, body, end tag) the camera holds
MaxFrameBody == 2
\* the largest small chunk size tried beside DEFAULT_XFER_CHUNK_SIZE
MaxChunk == 2
\* the transport may stall once it has delivered at most this many bytes
MaxStallAt == 3
\* ranged-read commands per session the model follows
MaxCommands == 30

\* byte values: zero, a plain data byte, and the three bytes of the JPEG tags
ByteVals == {0, 1, TagStart, TagEnd, TagLead}
\* the byte sent beyond the image: zero (the documented padding), or data
\* (the image is longer than the size the caller declared)
PadVals == {0, 1}
\* header ("junk") byte pairs the camera may send
Headers == {<<1, 1>>, <<0, TagLead>>, <<TagLead, TagEnd>>}
ChunkSizes == (1..MaxChunk) \cup {DEFAULT_XFER_CHUNK_SIZE}
\* ms until the first byte of a response: at once, or just inside the 5 s wait
Latencies == {0, ResponseTimeout - 1}

Min(a, b) == IF a <= b THEN a ELSE b
Max(a, b) == IF a >= b THEN a ELSE b

RECURSIVE SeqsUpTo(_, _)
\* all sequences over S of length 1..n
SeqsUpTo(S, n) ==
    IF n = 0 THEN {}
    ELSE LET shorter == SeqsUpTo(S, n - 1)
         IN  {<<x>> : x \in S} \cup shorter
             \cup {Append(s, x) : s \in {t \in shorter : Len(t) = n - 1}, x \in S}

\* JPEG frames: a start tag, a short body, an end tag
Frames == {<<TagLead, TagStart>> \o body \o <<TagLead, TagEnd>> :
              body \in SeqsUpTo(ByteVals, MaxFrameBody) \cup {<<>>}}

\* an end tag with a start tag right behind it: a frame that is opened again
Reopened == <<TagLead, TagEnd, TagLead, TagStart>>

Images == SeqsUpTo(ByteVals, MaxImageSize) \cup Frames \cup {Reopened}

-----------------------------------------------------------------------------
(* The camera and the transport *)

\* A byte on the wire: its value, and where it comes from: pos = -1 for a
\* header byte, else the offset in the image data the byte stands for.
HdrByte(v) == [v |-> v, pos |-> -1]
PayByte(off) == [v |-> IF off < Len(img) THEN img[off + 1] ELSE pad, pos |-> off]

\* The response to "#get_image=offset,length,RAW": two junk bytes, then
\* `length` bytes of image data from `offset`, padded beyond the image.
Response(off, len) ==
    <<HdrByte(hdr[1]), HdrByte(hdr[2])>> \o [n \in 1..len |-> PayByte(off + n - 1)]

\* The transport has stopped for good.
Dead == stallKind = "forever" /\ delivered >= stallAt

\* A byte is there before the wait for it runs out.
Delivers ==
    /\ wire /= <<>>
    /\ ~Dead
    /\ ~(stallKind = "late" /\ delivered = stallAt /\ ~stallDone)

\* whether  s  holds 0xFF immediately followed by 0xD9,  prev  being the
\* value that came before  s
RECURSIVE HasEndTag(_, _)
HasEndTag(prev, s) ==
    IF s = <<>> THEN FALSE
    ELSE (prev = TagLead /\ Head(s).v = TagEnd) \/ HasEndTag(Head(s).v, Tail(s))

\* The camera receives a command and puts its response on the wire.
CameraAnswers(off, len) ==
    IF Dead
    THEN UNCHANGED <<wire, lastSent, sentEnd>>
    ELSE LET r == Response(off, len)
         IN  /\ wire' = wire \o r
             /\ lastSent' = r[Len(r)].v
             /\ sentEnd' = (sentEnd \/ HasEndTag(lastSent, r))

\* A wait ran into its timeout.
TimedOut ==
    /\ stallDone' = (stallDone \/ (stallKind = "late" /\ delivered = stallAt))
    /\ timeouts' = timeouts + 1

-----------------------------------------------------------------------------
(* transferImage *)

\* int32_t bytesToRead = min(chunk_size, max(bytes_remaining, 1))
BytesToRead(chunk, remaining) == Min(chunk, Max(remaining, 1))

\* the outer loop's test with the 5 s command timeout in place of the deadline
XferContinuesShort(e, elapsed) == ~e /\ elapsed < ResponseTimeout

\* the outer loop's test without its deadline
XferContinuesForever(e, elapsed) == ~e

\* while (!eof && millis() - start_xfer_millis < 120000L)
XferContinues(e, elapsed) == ~e /\ elapsed < XferDeadline

\* the zero heuristic with > in place of >=
ZeroAfterLengthStrict(written, size, b) == written > size /\ b = 0

\* if (total_bytes_written >= image_size && b == 0) eof = true
ZeroAfterLength(written, size, b) == written >= size /\ b = 0

\* the inner loop counting only the data bytes of the response
ChunkBytesNoHeader(n) == n

\* for (i = 0; i < bytesToRead + start_data_byte; i++): how many
\* characters the inner loop reads of a response
ChunkBytes(n) == n + start_data_byte

\* the write test without its "!eof"
WritesByteIgnoringEof(idx, e) == idx >= start_data_byte

\* if (i >= start_data_byte && !eof) xferStream->write(b)
WritesByte(idx, e) == idx >= start_data_byte /\ ~e

\* the deadline found exceeded without total_bytes_written being touched
ForcedWrittenKept(remaining, written) == written

\* if (millis() - start_xfer_millis > 120000L) total_bytes_written = bytes_remaining
ForcedWritten(remaining, written) == remaining

\* the window read at the slot of the byte itself
WindowPrevSame(n) == n % 4

\* the window read two slots back
WindowPrevTwoBack(n) == (n + 2) % 4

\* uint8_t j = total_bytes_read % 4
WindowSlot(n) == n % 4
\* uint8_t k = total_bytes_read % 4 - 1; if (k == (uint8_t)-1) k = 3
WindowPrev(n) == IF n % 4 = 0 THEN 3 ELSE (n % 4) - 1

InitXferLocals ==
    /\ pc = "loop"
    /\ total_bytes_read = 0
    /\ total_bytes_written = 0
    /\ bytes_remaining = image_size + start_data_byte + extra_read_buff
    /\ chunk_number = 0
    /\ start_next_chunk = 0
    /\ prev_bytes = [n \in 0..3 |-> 0]
    /\ eof = FALSE
    /\ start_xfer_millis = now
    /\ bytesToRead = 0
    /\ bytes_read = 0
    /\ bytes_written = 0
    /\ i = 0
    /\ sink = <<>>
    /\ ret = -1
    /\ cmd = <<>>
    /\ ncmd = 0
    /\ eofBy = "none"
    /\ eofEver = FALSE
    /\ zeroSeen = FALSE
    /\ lastRead = -1
    /\ payload = <<>>
    /\ timeouts = 0

\* The head of the outer loop, up to the wait for the response: the
\* round's request length, then sendCommand("get_image", ...).
XferRound ==
    /\ pc = "loop"
    /\ XferFrame
    /\ XferContinues(eof, now - start_xfer_millis)
    /\ ncmd < MaxCommands
    /\ LET n == BytesToRead(chunk_size, bytes_remaining)
       IN  /\ bytesToRead' = n
           /\ cmd' = <<start_next_chunk, n>>
           /\ CameraAnswers(start_next_chunk, n)
    /\ bytes_read' = 0
    /\ bytes_written' = 0
    /\ ncmd' = ncmd + 1
    /\ pc' = "wait"
    /\ UNCHANGED <<now, delivered, img, pad, hdr, latency, stallKind, stallAt, stallDone>>
    /\ UNCHANGED <<image_size, chunk_size, total_bytes_read, total_bytes_written,
                   bytes_remaining, chunk_number, start_next_chunk, prev_bytes, eof,
                   start_xfer_millis, i, sink, ret, eofBy, eofEver, zeroSeen, lastRead, payload,
                   timeouts>>

\* The outer loop ends: return static_cast<uint32_t>(total_bytes_written).
XferReturn ==
    /\ pc = "loop"
    /\ XferFrame
    /\ ~XferContinues(eof, now - start_xfer_millis)
    /\ ret' = total_bytes_written
    /\ pc' = "done"
    /\ UNCHANGED transportVars
    /\ UNCHANGED <<image_size, chunk_size, total_bytes_read, total_bytes_written,
                   bytes_remaining, chunk_number, start_next_chunk, prev_bytes, eof,
                   start_xfer_millis, bytesToRead, bytes_read, bytes_written, i, sink,
                   cmd, ncmd, eofBy, eofEver, zeroSeen, lastRead, payload, timeouts>>

\* The wait for any character ends with one available: on to the inner loop.
XferResponse ==
    /\ pc = "wait"
    /\ XferFrame
    /\ Delivers
    /\ now' = now + latency
    /\ i' = 0
    /\ pc' = "byte"
    /\ UNCHANGED <<wire, delivered, img, pad, hdr, latency, stallKind, stallAt,
                   stallDone, lastSent, sentEnd>>
    /\ UNCHANGED <<image_size, chunk_size, total_bytes_read, total_bytes_written,
                   bytes_remaining, chunk_number, start_next_chunk, prev_bytes, eof,
                   start_xfer_millis, bytesToRead, bytes_read, bytes_written, sink,
                   ret, cmd, ncmd, eofBy, eofEver, zeroSeen, lastRead, payload, timeouts>>

\* the silent round counted as a chunk
RetryChunkNumberCounted(n) == n + 1

\* "continue" skips the round's bookkeeping: chunk_number stays
RetryChunkNumber(n) == n

\* 5 s of silence: "No response!", continue with the outer loop.
XferNoResponse ==
    /\ pc = "wait"
    /\ XferFrame
    /\ ~Delivers
    /\ now' = now + ResponseTimeout
    /\ TimedOut
    /\ pc' = "loop"
    /\ chunk_number' = RetryChunkNumber(chunk_number)
    /\ UNCHANGED <<wire, delivered, img, pad, hdr, latency, stallKind, stallAt,
                   lastSent, sentEnd>>
    /\ UNCHANGED <<image_size, chunk_size, total_bytes_read, total_bytes_written,
                   bytes_remaining, start_next_chunk, prev_bytes, eof,
                   start_xfer_millis, bytesToRead, bytes_read, bytes_written, i, sink,
                   ret, cmd, ncmd, eofBy, eofEver, zeroSeen, lastRead, payload>>

\* One pass of the inner loop with a character available: read it, apply
\* the zero heuristic, write it, check the deadline, update the window
\* and look for the tags.
XferReadByte ==
    /\ pc = "byte"
    /\ XferFrame
    /\ i < ChunkBytes(bytesToRead)
    /\ Delivers
    /\ LET b    == Head(wire)
           tbr  == total_bytes_read + 1
           zero == ZeroAfterLength(total_bytes_written, image_size, b.v)
           eof1 == eof \/ zero
           wr   == WritesByte(i, eof1)
           tbw1 == IF wr THEN total_bytes_written + 1 ELSE total_bytes_written
           late == now - start_xfer_millis > XferDeadline
           j    == WindowSlot(tbr)
           k    == WindowPrev(tbr)
           pb   == [prev_bytes EXCEPT ![j] = b.v]
           end  == b.v = TagEnd /\ pb[k] = TagLead
           strt == b.v = TagStart /\ pb[k] = TagLead
       IN  /\ wire' = Tail(wire)
           /\ delivered' = delivered + 1
           /\ bytes_read' = bytes_read + 1
           /\ total_bytes_read' = tbr
           /\ sink' = IF wr THEN Append(sink, b) ELSE sink
           /\ bytes_written' = IF wr THEN bytes_written + 1 ELSE bytes_written
           /\ total_bytes_written' = IF late THEN ForcedWritten(bytes_remaining, tbw1) ELSE tbw1
           /\ prev_bytes' = pb
           /\ eof' = IF strt THEN FALSE ELSE IF end THEN TRUE ELSE eof1
           /\ eofBy' = IF strt THEN "none" ELSE IF end THEN "marker"
                       ELSE IF zero THEN "zero" ELSE eofBy
           /\ eofEver' = (eofEver \/ zero \/ end)
           /\ zeroSeen' = (zeroSeen \/ (total_bytes_written >= image_size /\ b.v = 0))
           /\ lastRead' = b.v
           /\ payload' = IF b.pos = -1 THEN payload ELSE Append(payload, b)
    /\ i' = i + 1
    /\ UNCHANGED <<now, img, pad, hdr, latency, stallKind, stallAt, stallDone,
                   lastSent, sentEnd>>
    /\ UNCHANGED <<pc, image_size, chunk_size, bytes_remaining, chunk_number,
                   start_next_chunk, start_xfer_millis, bytesToRead, ret, cmd, ncmd,
                   timeouts>>

\* After the inner loop: the round's bookkeeping, then break on eof (and
\* return) or go round the outer loop again.
XferBookkeeping ==
    /\ bytes_remaining' = bytes_remaining - Min(bytes_read, bytesToRead)
    /\ start_next_chunk' = start_next_chunk + Min(bytes_read, bytesToRead)
    /\ chunk_number' = chunk_number + 1
    /\ IF eof
       THEN pc' = "done" /\ ret' = total_bytes_written
       ELSE pc' = "loop" /\ ret' = ret

\* 10 ms without a character: "No more characters available!", break.
XferStarve ==
    /\ pc = "byte"
    /\ XferFrame
    /\ i < ChunkBytes(bytesToRead)
    /\ ~Delivers
    /\ now' = now + CharTimeout
    /\ TimedOut
    /\ XferBookkeeping
    /\ UNCHANGED <<wire, delivered, img, pad, hdr, latency, stallKind, stallAt,
                   lastSent, sentEnd>>
    /\ UNCHANGED <<image_size, chunk_size, total_bytes_read, total_bytes_written,
                   prev_bytes, eof, start_xfer_millis, bytesToRead, bytes_read,
                   bytes_written, i, sink, cmd, ncmd, eofBy, eofEver, zeroSeen, lastRead, payload>>

\* The inner loop has read bytesToRead + 2 characters.
XferEndChunk ==
    /\ pc = "byte"
    /\ XferFrame
    /\ i >= ChunkBytes(bytesToRead)
    /\ XferBookkeeping
    /\ UNCHANGED transportVars
    /\ UNCHANGED <<image_size, chunk_size, total_bytes_read, total_bytes_written,
                   prev_bytes, eof, start_xfer_millis, bytesToRead, bytes_read,
                   bytes_written, i, sink, cmd, ncmd, eofBy, eofEver, zeroSeen,
                   lastRead, payload, timeouts>>

\* waitForReady is not running.
IdleReady ==
    /\ initial_delay = 0
    /\ timeout = 0
    /\ camera_status = 0
    /\ start_millis = 0
    /\ nqueries = 0
    /\ recent = <<>>
    /\ queryAt = -1
    /\ answerAt = -1
    /\ sawTerminal = FALSE

\* sendCommand is not running.
\* sendCommand called by none of the mode setters
NoCall == [setter |-> "none", overload |-> "none", mode |-> <<>>]

IdleCmd ==
    /\ call = NoCall
    /\ items = <<>>
    /\ nprinted = 0
    /\ out = <<>>
    /\ flushed = FALSE
    /\ outAtFlush = <<>>

\* getCameraInfoString / getCameraInfoInt is not running.
IdleInfo ==
    /\ variant = "none"
    /\ searchStartTag = <<>>
    /\ searchEndTag = ""
    /\ numberSkips = 0
    /\ searchSkipTag = <<>>
    /\ skips = 0
    /\ scanBuf = <<>>
    /\ resp = <<>>
    /\ dump = <<>>
    /\ found = FALSE

\* None of the operations modelled after getImageChunk is running.
IdleRest == IdleReady /\ IdleCmd /\ IdleInfo

\* waitResponse is not running.
IdleWr ==
    /\ data = <<>>
    /\ index = 0
    /\ timeout_ms = 0
    /\ startMillis = 0
    /\ terms = <<>>
    /\ nread = 0
    /\ appended = 0
    /\ lastChar = -1
    /\ lastReadAt = -1
    /\ rxAt = <<>>
    /\ lastArrivedAt = -1

\* getImageChunk is not running.
IdleChunk ==
    /\ buf = <<>>
    /\ offset = 0
    /\ length = 0
    /\ streamTimeout = 1000
    /\ prev_timeout = 0
    /\ entry_timeout = 1000
    /\ firstBytes = -1

\* A session: the camera holds an image, the caller declares its size.
InitXfer ==
    /\ now = 0
    /\ wire = <<>>
    /\ delivered = 0
    /\ img \in Images
    /\ pad \in PadVals
    /\ hdr \in Headers
    /\ latency \in Latencies
    /\ stallKind \in {"none", "late", "forever"}
    /\ stallAt \in 0..MaxStallAt
    /\ stallKind = "none" => stallAt = 0
    /\ stallKind /= "none" => latency = 0
    /\ stallDone = FALSE
    /\ lastSent = -1
    /\ sentEnd = FALSE
    /\ image_size = Len(img)
    /\ chunk_size \in ChunkSizes
    /\ InitXferLocals
    /\ rx = <<>>
    /\ sent = 0
    /\ IdleWr
    /\ IdleChunk
    /\ IdleRest

NextXfer ==
    \/ XferRound
    \/ XferReturn
    \/ XferResponse
    \/ XferNoResponse
    \/ XferReadByte
    \/ XferStarve
    \/ XferEndChunk

SpecXfer == InitXfer /\ [][NextXfer]_vars

\* The sessions followed to their end: images of one byte and the empty
\* JPEG frame, behind a plain header.
InitXferLive ==
    /\ InitXfer
    /\ Len(img) = 1 \/ img = <<TagLead, TagStart, TagLead, TagEnd>>
    /\ hdr = <<1, 1>>

\* transferImage runs on a core that keeps executing it: a step that can
\* be taken is taken.
SpecXferLive == InitXferLive /\ [][NextXfer]_vars /\ WF_vars(NextXfer)

-----------------------------------------------------------------------------
(* waitResponse *)

\* waitResponse(GsmConstStr r1, ...) { return waitResponse(5000L, r1, ...); }
DefaultWaitTimeout == 5000

\* a short timeout_ms, for calls whose deadline passes within a few reads
ShortWaitTimeout == 2
\* bytes the peer sends during one call of waitResponse
MaxStream == 3

\* character codes: 'K', '\n' (white space), NUL, and a byte above 0x7F
CharK == 75
CharLF == 10
WireChars == {0, CharLF, CharK, 200}
\* terminators the caller may pass; <<>> is a null pointer
Terminators == {<<CharK>>, <<CharLF>>, <<CharK, CharLF>>}
TerminatorSets == [1..4 -> Terminators \cup {<<>>}]
WaitTimeouts == {ShortWaitTimeout, DefaultWaitTimeout}
\* ms a pass of the inner loop may take
ReadCosts == {0, 1}

\* int8_t a = _stream->read()
ToInt8(b) == IF b >= 128 THEN b - 256 ELSE b

\* String::endsWith
EndsWith(s, t) ==
    /\ Len(t) <= Len(s)
    /\ SubSeq(s, Len(s) - Len(t) + 1, Len(s)) = t

\* isspace()
IsSpace(c) == c = 32 \/ (c >= 9 /\ c <= 13)

RECURSIVE TrimLeft(_)
TrimLeft(s) == IF s /= <<>> /\ IsSpace(Head(s)) THEN TrimLeft(Tail(s)) ELSE s
RECURSIVE TrimRight(_)
TrimRight(s) ==
    IF s /= <<>> /\ IsSpace(s[Len(s)]) THEN TrimRight(SubSeq(s, 1, Len(s) - 1)) ELSE s
\* String::trim
Trim(s) == TrimRight(TrimLeft(s))

\* if (a <= 0) continue;  -- whether a byte read is appended to data
Appends(b) == ToInt8(b) > 0

\* the terminators tested in the order 4..1
MatchIndexLast(d, r) ==
    IF \E n \in 1..4 : r[n] /= <<>> /\ EndsWith(d, r[n])
    THEN CHOOSE n \in 1..4 :
            /\ r[n] /= <<>> /\ EndsWith(d, r[n])
            /\ \A m \in (n + 1)..4 : ~(r[m] /= <<>> /\ EndsWith(d, r[m]))
    ELSE 0

\* if (r1 && data.endsWith(r1)) index = 1 else if (r2 && ...) ...: the
\* index of the first terminator that data ends with, 0 if there is none
MatchIndex(d, r) ==
    IF \E n \in 1..4 : r[n] /= <<>> /\ EndsWith(d, r[n])
    THEN CHOOSE n \in 1..4 :
            /\ r[n] /= <<>> /\ EndsWith(d, r[n])
            /\ \A m \in 1..(n - 1) : ~(r[m] /= <<>> /\ EndsWith(d, r[m]))
    ELSE 0

\* the text left in data when no terminator matched, with the clearing forgotten
FinishDataTrimOnly(idx, d) == IF idx = 0 THEN Trim(d) ELSE d

\* finish: if (!index) { data.trim(); data = ""; }
FinishData(idx, d) == IF idx = 0 THEN <<>> ELSE d

\* the camera, and transferImage, are not part of the run
IdleCamera ==
    /\ wire = <<>>
    /\ delivered = 0
    /\ img = <<>>
    /\ pad = 0
    /\ hdr = <<0, 0>>
    /\ latency = 0
    /\ stallKind = "none"
    /\ stallAt = 0
    /\ stallDone = FALSE
    /\ lastSent = -1
    /\ sentEnd = FALSE

IdleXfer ==
    /\ image_size = 0
    /\ chunk_size = 0
    /\ total_bytes_read = 0
    /\ total_bytes_written = 0
    /\ bytes_remaining = 0
    /\ chunk_number = 0
    /\ start_next_chunk = 0
    /\ prev_bytes = [n \in 0..3 |-> 0]
    /\ eof = FALSE
    /\ start_xfer_millis = 0
    /\ bytesToRead = 0
    /\ bytes_read = 0
    /\ bytes_written = 0
    /\ i = 0
    /\ sink = <<>>
    /\ cmd = <<>>
    /\ ncmd = 0
    /\ eofBy = "none"
    /\ eofEver = FALSE
    /\ zeroSeen = FALSE
    /\ lastRead = -1
    /\ payload = <<>>
    /\ timeouts = 0

cameraVars == <<wire, delivered, img, pad, hdr, latency, stallKind, stallAt, stallDone,
                lastSent, sentEnd>>
xferLocals == <<image_size, chunk_size, total_bytes_read, total_bytes_written,
                bytes_remaining, chunk_number, start_next_chunk, prev_bytes, eof,
                start_xfer_millis, bytesToRead, bytes_read, bytes_written, i, sink,
                eofBy, eofEver, zeroSeen, lastRead, payload, timeouts>>

\* what the actions of waitResponse leave alone
WrFrame ==
    UNCHANGED <<cameraVars, xferLocals, cmd, ncmd, chunkVars, restVars, timeout_ms,
                startMillis, terms>>

\* what the peer may add to the receive buffer while the driver is busy
\* with one pass of the inner loop: nothing, or one more byte
Arrivals == {<<>>} \cup (IF sent < MaxStream THEN {<<c>> : c \in WireChars} ELSE {})

\* One pass of the inner loop, "while (_stream->available() > 0)": read a
\* byte, skip it or append it, and test the terminators in order.
WrRead ==
    /\ pc = "wr"
    /\ WrFrame
    /\ rx /= <<>>
    /\ LET b == Head(rx)
           d == IF Appends(b) THEN Append(data, ToInt8(b)) ELSE data
           m == IF Appends(b) THEN MatchIndex(d, terms) ELSE 0
       IN  /\ index' = m
           /\ data' = IF m /= 0 THEN FinishData(m, d) ELSE d
           /\ pc' = IF m /= 0 THEN "done" ELSE "wr"
           /\ ret' = IF m /= 0 THEN m ELSE ret
           /\ appended' = IF Appends(b) THEN appended + 1 ELSE appended
           /\ lastChar' = IF Appends(b) THEN ToInt8(b) ELSE lastChar
    /\ nread' = nread + 1
    /\ lastReadAt' = now
    /\ lastArrivedAt' = Head(rxAt)
    /\ \E cost \in ReadCosts : now' = now + cost
    /\ \E more \in Arrivals :
          /\ rx' = Tail(rx) \o more
          /\ rxAt' = Tail(rxAt) \o [n \in 1..Len(more) |-> now]
          /\ sent' = sent + Len(more)

\* The receive buffer is empty and the deadline has not passed: the outer
\* loop goes round until a byte arrives, which it does before the deadline.
WrArrival ==
    /\ pc = "wr"
    /\ WrFrame
    /\ rx = <<>>
    /\ now - startMillis < timeout_ms
    /\ sent < MaxStream
    /\ \E gap \in {0, 1} :
          /\ now + gap - startMillis < timeout_ms
          /\ now' = now + gap
    /\ \E c \in WireChars : rx' = <<c>>
    /\ rxAt' = <<now'>>
    /\ sent' = sent + 1
    /\ UNCHANGED <<pc, ret, data, index, nread, appended, lastChar, lastReadAt,
                   lastArrivedAt>>

\* The receive buffer is empty when "millis() - startMillis < timeout_ms"
\* fails: finish with index 0.
WrTimeout ==
    /\ pc = "wr"
    /\ WrFrame
    /\ rx = <<>>
    /\ now' = Max(now, startMillis + timeout_ms)
    /\ index' = 0
    /\ data' = FinishData(0, data)
    /\ ret' = 0
    /\ pc' = "done"
    /\ UNCHANGED <<rx, sent, nread, appended, lastChar, lastReadAt, rxAt, lastArrivedAt>>

\* A call of waitResponse(timeout_ms, data, r1, r2, r3, r4): the buffer
\* passed in is fresh or holds text already.
InitWait ==
    /\ now = 0
    /\ IdleCamera
    /\ IdleXfer
    /\ IdleChunk
    /\ IdleRest
    /\ rx = <<>>
    /\ sent = 0
    /\ pc = "wr"
    /\ ret = -1
    /\ data \in {<<>>, <<CharK>>}
    /\ index = 0
    /\ timeout_ms \in WaitTimeouts
    /\ startMillis = now
    /\ terms \in TerminatorSets
    /\ nread = 0
    /\ appended = 0
    /\ lastChar = -1
    /\ lastReadAt = -1
    /\ rxAt = <<>>
    /\ lastArrivedAt = -1

NextWait ==
    \/ WrRead
    \/ WrArrival
    \/ WrTimeout

SpecWait == InitWait /\ [][NextWait]_vars

-----------------------------------------------------------------------------
(* getImageChunk *)

\* while (_stream->available() < 3 && millis() - start_time < 5000L)
ChunkFirstBytes == 3
\* _stream->setTimeout(15L)
ChunkReadTimeout == 15
\* streamDump: if (!_stream->available()) { delay(25); }
DumpDelay == 25

\* the longest chunk asked for
MaxLength == 2
\* stale bytes in the receive buffer at entry, and bytes sent after the response
MaxStray == 1

\* the count handed to readBytes, with the 2 header bytes added to it
ChunkReadLengthWithHeader(len) == len + start_data_byte

\* uint32_t bytes_read = _stream->readBytes(buf, length): the count asked for
ChunkReadLength(len) == len

\* the shortened timeout left in place
KeptTimeout(prev) == ChunkReadTimeout

\* _stream->setTimeout(prev_timeout)
RestoredTimeout(prev) == prev

\* the early return taken although nothing is available, forgotten
ChunkNoResponseNever(k) == FALSE

\* if (!_stream->available()) { return 0; }
ChunkNoResponse(k) == k = 0

\* a byte that belongs to no response
StrayByte == [v |-> 1, pos |-> -2]

\* what the actions of getImageChunk leave alone
ChunkFrame ==
    UNCHANGED <<delivered, img, pad, hdr, latency, stallKind, stallAt, stallDone,
                xferLocals, wrVars, restVars, offset, length, entry_timeout>>

\* streamDump(), then sendCommand("get_image", '=', offset, ',', length,
\* ',', "RAW"): the receive buffer is emptied, the camera answers, and
\* something may follow the answer on the wire.
ChunkSend ==
    /\ pc = "gc"
    /\ ChunkFrame
    /\ now' = now + (IF rx = <<>> THEN DumpDelay ELSE Len(rx))
    /\ rx' = <<>>
    /\ \E stray \in 0..MaxStray :
          LET r == Response(offset, length) \o [n \in 1..stray |-> StrayByte]
          IN  /\ wire' = wire \o r
              /\ lastSent' = r[Len(r)].v
              /\ sentEnd' = (sentEnd \/ HasEndTag(lastSent, r))
              /\ sent' = sent + Len(r)
    /\ ncmd' = ncmd + 1
    /\ cmd' = <<offset, length>>
    /\ pc' = "gc_wait"
    /\ UNCHANGED <<ret, buf, streamTimeout, prev_timeout, firstBytes>>

\* The wait for 3 bytes or 5 s, and what follows without a wait: return 0
\* if nothing is available; else two read()s, whose bytes are thrown away
\* (read() takes nothing when nothing is available), and setTimeout(15).
ChunkAwait ==
    /\ pc = "gc_wait"
    /\ ChunkFrame
    /\ \E k \in 0..Min(ChunkFirstBytes, Len(wire)) :
          LET got  == SubSeq(wire, 1, k)
              drop == Min(start_data_byte, k)
          IN  /\ now' = IF k = ChunkFirstBytes THEN now ELSE now + ResponseTimeout
              /\ wire' = SubSeq(wire, k + 1, Len(wire))
              /\ rx' = SubSeq(got, drop + 1, k)
              /\ firstBytes' = k
              /\ IF ChunkNoResponse(k)
                 THEN /\ pc' = "done"
                      /\ ret' = 0
                      /\ UNCHANGED <<streamTimeout, prev_timeout>>
                 ELSE /\ pc' = "gc_read"
                      /\ ret' = ret
                      /\ prev_timeout' = streamTimeout
                      /\ streamTimeout' = ChunkReadTimeout
    /\ UNCHANGED <<buf, lastSent, sentEnd, sent, cmd, ncmd>>

\* readBytes: one timedRead() that yields a byte, stored in buf.
ChunkReadByte ==
    /\ pc = "gc_read"
    /\ ChunkFrame
    /\ Len(buf) < ChunkReadLength(length)
    /\ rx /= <<>> \/ wire /= <<>>
    /\ IF rx /= <<>>
       THEN /\ buf' = Append(buf, Head(rx))
            /\ rx' = Tail(rx)
            /\ wire' = wire
       ELSE /\ buf' = Append(buf, Head(wire))
            /\ wire' = Tail(wire)
            /\ rx' = rx
    /\ UNCHANGED <<now, pc, ret, streamTimeout, prev_timeout, firstBytes, lastSent,
                   sentEnd, sent, cmd, ncmd>>

\* readBytes ends, the count reached or a timedRead() timed out:
\* setTimeout(prev_timeout); return bytes_read.
ChunkReturn ==
    /\ pc = "gc_read"
    /\ ChunkFrame
    /\ \/ /\ Len(buf) >= ChunkReadLength(length)
          /\ now' = now
       \/ /\ Len(buf) < ChunkReadLength(length)
          /\ rx = <<>>
          /\ now' = now + streamTimeout
    /\ streamTimeout' = RestoredTimeout(prev_timeout)
    /\ ret' = Len(buf)
    /\ pc' = "done"
    /\ UNCHANGED <<wire, rx, buf, prev_timeout, firstBytes, lastSent, sentEnd, sent,
                   cmd, ncmd>>

\* A call of getImageChunk(buf, offset, length); the receive buffer may
\* hold a stale byte.
InitChunk ==
    /\ now = 0
    /\ wire = <<>>
    /\ delivered = 0
    /\ img \in SeqsUpTo(ByteVals, MaxLength) \cup {<<>>}
    /\ pad = 0
    /\ hdr \in Headers
    /\ latency = 0
    /\ stallKind = "none"
    /\ stallAt = 0
    /\ stallDone = FALSE
    /\ lastSent = -1
    /\ sentEnd = FALSE
    /\ IdleXfer
    /\ IdleWr
    /\ IdleRest
    /\ rx \in {[n \in 1..k |-> StrayByte] : k \in 0..MaxStray}
    /\ sent = 0
    /\ pc = "gc"
    /\ ret = -1
    /\ buf = <<>>
    /\ offset \in 0..1
    /\ length \in 1..MaxLength
    /\ streamTimeout \in {1000, 50}
    /\ prev_timeout = 0
    /\ entry_timeout = streamTimeout
    /\ firstBytes = -1

NextChunk ==
    \/ ChunkSend
    \/ ChunkAwait
    \/ ChunkReadByte
    \/ ChunkReturn

SpecChunk == InitChunk /\ [][NextChunk]_vars

-----------------------------------------------------------------------------
(* waitForReady *)

\* typedef enum { OK = 1, ERROR, BUSY, NONE } geolux_status, and the value
\* waitResponse gives when no terminator came, named NO_RESPONSE
NO_RESPONSE == 0
OK == 1
ERROR == 2
BUSY == 3
NONE == 4
\* delay(100)
PollDelay == 100
\* uint32_t timeout = 60000L
DefaultReadyTimeout == 60000

\* calls of getStatus in one run
MaxPolls == 5
\* the longest an answered getStatus takes, ms
MaxAnswerTime == 150
\* the longest streamFind('\n') waits after waitResponse timed out, ms
MaxFindWait == 1000
\* a timeout the caller passes that a few polls exhaust
ShortReadyTimeout == 250
\* an initial delay the caller passes
SomeInitialDelay == 30

\* getStatus: static_cast<geolux_status>(waitResponse("READY", "ERR",
\* "BUSY", "NONE")), the index of the terminator matched, 0 for none
Statuses == {NO_RESPONSE, OK, ERROR, BUSY, NONE}

\* How long a call of getStatus takes: with no terminator, the 5 s of
\* waitResponse and then streamFind('\n'); with one, as long as the answer
\* takes to arrive.
QueryTimes(st) ==
    IF st = NO_RESPONSE
    THEN {DefaultWaitTimeout, DefaultWaitTimeout + MaxFindWait}
    ELSE {0, 1, MaxAnswerTime}

ReadyTimeouts == {0, SomeInitialDelay, ShortReadyTimeout, DefaultReadyTimeout}
InitialDelays == {0, SomeInitialDelay}

\* camera_status == OK || camera_status == NONE
IsReady(st) == st = OK \/ st = NONE

\* the loop test with NONE not taken for ready
ReadyPollsUnlessOK(st, elapsed, to) == st /= OK /\ elapsed < to

\* while (camera_status != OK && camera_status != NONE &&
\*        millis() - start_millis < timeout)
ReadyPolls(st, elapsed, to) == ~IsReady(st) /\ elapsed < to

\* if (OK || NONE) return millis() - start_millis; else return 0;
ReadyResult(st, elapsed) == IF IsReady(st) THEN elapsed ELSE 0

\* what the actions of waitForReady leave alone
ReadyFrame ==
    UNCHANGED <<cameraVars, rx, sent, wrVars, chunkVars, xferLocals, cmd, ncmd, cmdVars,
                infoVars, initial_delay, timeout, start_millis>>

\* delay(initial_delay)
ReadyInitialDelay ==
    /\ pc = "wfr"
    /\ ReadyFrame
    /\ now' = now + initial_delay
    /\ pc' = "wfr_loop"
    /\ UNCHANGED <<ret, camera_status, nqueries, recent, queryAt, answerAt, sawTerminal>>

\* One pass of the loop: camera_status = getStatus(), then delay(100)
\* unless the status is OK or NONE.
ReadyPoll ==
    /\ pc = "wfr_loop"
    /\ ReadyFrame
    /\ ReadyPolls(camera_status, now - start_millis, timeout)
    /\ nqueries < MaxPolls
    /\ \E st \in Statuses : \E d \in QueryTimes(st) :
          /\ camera_status' = st
          /\ queryAt' = now
          /\ answerAt' = now + d
          /\ now' = IF IsReady(st) THEN now + d ELSE now + d + PollDelay
          /\ recent' = Append(recent, st)
          /\ sawTerminal' = (sawTerminal \/ st \in {OK, NONE})
    /\ nqueries' = nqueries + 1
    /\ UNCHANGED <<pc, ret>>

\* The loop test fails: return the time waited, or 0.
ReadyReturn ==
    /\ pc = "wfr_loop"
    /\ ReadyFrame
    /\ ~ReadyPolls(camera_status, now - start_millis, timeout)
    /\ ret' = ReadyResult(camera_status, now - start_millis)
    /\ pc' = "done"
    /\ UNCHANGED <<now, camera_status, nqueries, recent, queryAt, answerAt, sawTerminal>>

\* A call of waitForReady(initial_delay, timeout).
InitReady ==
    /\ now = 0
    /\ IdleCamera
    /\ IdleXfer
    /\ IdleWr
    /\ IdleChunk
    /\ IdleCmd
    /\ IdleInfo
    /\ rx = <<>>
    /\ sent = 0
    /\ pc = "wfr"
    /\ ret = -1
    /\ initial_delay \in InitialDelays
    /\ timeout \in ReadyTimeouts
    /\ camera_status = NO_RESPONSE
    /\ start_millis = now
    /\ nqueries = 0
    /\ recent = <<>>
    /\ queryAt = -1
    /\ answerAt = -1
    /\ sawTerminal = FALSE

NextReady ==
    \/ ReadyInitialDelay
    \/ ReadyPoll
    \/ ReadyReturn

SpecReady == InitReady /\ [][NextReady]_vars

-----------------------------------------------------------------------------
(* sendCommand *)

\* Characters are strings of length 1; a text is a sequence of them.
\* What a caller passes: a text (GF("...") or const char*), a character
\* ('=' or ','), or an unsigned integer (uint8_t, uint16_t, int32_t, size_t).
Str(t) == [kind |-> "text", text |-> t, num |-> 0]
Chr(c) == [kind |-> "char", text |-> <<c>>, num |-> 0]
Num(n) == [kind |-> "number", text |-> <<>>, num |-> n]

DigitChars == <<"0", "1", "2", "3", "4", "5", "6", "7", "8", "9">>

\* Print::print of an unsigned integer: its decimal digits
RECURSIVE PrintNumber(_)
PrintNumber(n) ==
    IF n < 10 THEN <<DigitChars[n + 1]>>
    ELSE PrintNumber(n \div 10) \o <<DigitChars[(n % 10) + 1]>>

\* the value of a text of decimal digits
RECURSIVE DigitsValue(_)
DigitsValue(t) ==
    IF t = <<>> THEN 0
    ELSE 10 * DigitsValue(SubSeq(t, 1, Len(t) - 1))
         + (CHOOSE d \in 0..9 : DigitChars[d + 1] = t[Len(t)])

\* the characters from position  from  on that are decimal digits, up to
\* the first that is not
RECURSIVE DigitRun(_, _)
DigitRun(t, from) ==
    IF from > Len(t) \/ ~(\E d \in 1..10 : DigitChars[d] = t[from]) THEN <<>>
    ELSE <<t[from]>> \o DigitRun(t, from + 1)

\* a number printed as its last decimal digit only
PrintItemOneDigit(it) ==
    IF it.kind = "number" THEN <<DigitChars[(it.num % 10) + 1]>> ELSE it.text

\* _stream->print(head)
PrintItem(it) == IF it.kind = "number" THEN PrintNumber(it.num) ELSE it.text

T_set_quality == <<"s", "e", "t", "_", "q", "u", "a", "l", "i", "t", "y">>
T_take_snapshot == <<"t", "a", "k", "e", "_", "s", "n", "a", "p", "s", "h", "o", "t">>
T_get_status == <<"g", "e", "t", "_", "s", "t", "a", "t", "u", "s">>
T_get_image == <<"g", "e", "t", "_", "i", "m", "a", "g", "e">>
T_RAW == <<"R", "A", "W">>

\* numbers the callers pass
NumVals == {0, 7, 10, 90, 100, 255, 1024, DEFAULT_XFER_CHUNK_SIZE}

\* The calls of sendCommand: takeSnapshot and getStatus (no argument),
\* setQuality(compression), and the ranged read of getImageChunk.
Commands ==
    {<<Str(T_take_snapshot)>>, <<Str(T_get_status)>>}
    \cup {<<Str(T_set_quality), Chr("="), Num(n)>> : n \in NumVals}
    \cup {<<Str(T_get_image), Chr("="), Num(o), Chr(","), Num(l), Chr(","), Str(T_RAW)>> :
            o \in {0, 1024}, l \in NumVals \ {0}}

\* what the actions of sendCommand leave alone
CmdFrame ==
    UNCHANGED <<transportVars, xferLocals, cmd, ncmd, ret, rx, sent, wrVars, chunkVars,
                readyVars, infoVars, items, call>>

\* streamWrite: _stream->print(head), then streamWrite(tail...)
CmdPrint ==
    /\ pc = "sc"
    /\ CmdFrame
    /\ nprinted < Len(items)
    /\ out' = out \o PrintItem(items[nprinted + 1])
    /\ nprinted' = nprinted + 1
    /\ UNCHANGED <<pc, flushed, outAtFlush>>

\* _stream->flush(), and the return
CmdFlush ==
    /\ pc = "sc"
    /\ CmdFrame
    /\ nprinted = Len(items)
    /\ flushed' = TRUE
    /\ outAtFlush' = out
    /\ pc' = "done"
    /\ UNCHANGED <<nprinted, out>>

\* A call sendCommand(cmd...): streamWrite("#", cmd..., "\r\n").
InitCmd ==
    /\ now = 0
    /\ IdleCamera
    /\ IdleXfer
    /\ IdleWr
    /\ IdleChunk
    /\ IdleReady
    /\ IdleInfo
    /\ rx = <<>>
    /\ sent = 0
    /\ pc = "sc"
    /\ ret = -1
    /\ \E c \in Commands : items = <<Str(<<"#">>)>> \o c \o <<Str(<<"\r", "\n">>)>>
    /\ call = NoCall
    /\ nprinted = 0
    /\ out = <<>>
    /\ flushed = FALSE
    /\ outAtFlush = <<>>

NextCmd ==
    \/ CmdPrint
    \/ CmdFlush

SpecCmd == InitCmd /\ [][NextCmd]_vars

-----------------------------------------------------------------------------
(* setNightMode, setIRLEDMode *)

T_set_resolution == <<"s", "e", "t", "_", "r", "e", "s", "o", "l", "u", "t", "i", "o", "n">>
T_set_ir_led_mode == <<"s", "e", "t", "_", "i", "r", "_", "l", "e", "d", "_", "m", "o", "d", "e">>
T_day == <<"d", "a", "y">>
T_night == <<"n", "i", "g", "h", "t">>
T_auto == <<"a", "u", "t", "o">>
T_on == <<"o", "n">>
T_off == <<"o", "f", "f">>

\* the values of geolux_night_mode and geolux_ir_mode, by name, and a value
\* of the type that is none of the enumerators
NightModes == {<<"DAY">>, <<"NIGHT">>, <<"AUTO">>, <<"OTHER">>}
IRModes == {<<"IR_ON">>, <<"IR_OFF">>, <<"IR_AUTO">>, <<"OTHER">>}
\* the texts a caller passes to the overloads that take a string
ModeTexts == {T_day, T_night, T_auto, T_on, T_off}

\* the switch of setNightMode(geolux_night_mode)
NightModeText(m) ==
    IF m = <<"DAY">> THEN T_day ELSE IF m = <<"NIGHT">> THEN T_night ELSE T_auto

\* the switch of setIRLEDMode(geolux_ir_mode)
IRModeText(m) ==
    IF m = <<"IR_ON">> THEN T_on ELSE IF m = <<"IR_OFF">> THEN T_off ELSE T_auto

\* the arguments the setter hands to sendCommand
ModeCommand(c) ==
    IF c.overload = "string"
    THEN <<Str(T_set_resolution), Chr("="), Str(c.mode)>>
    ELSE IF c.setter = "setNightMode"
         THEN <<Str(T_set_quality), Chr("="), Str(NightModeText(c.mode))>>
         ELSE <<Str(T_set_ir_led_mode), Chr("="), Str(IRModeText(c.mode))>>

\* the calls of the two setters
ModeCalls ==
    {[setter |-> "setNightMode", overload |-> "enum", mode |-> m] : m \in NightModes}
    \cup {[setter |-> "setIRLEDMode", overload |-> "enum", mode |-> m] : m \in IRModes}
    \cup {[setter |-> f, overload |-> "string", mode |-> t] :
             f \in {"setNightMode", "setIRLEDMode"}, t \in ModeTexts}

\* A call of setNightMode or setIRLEDMode, up to the return of sendCommand.
InitMode ==
    /\ now = 0
    /\ IdleCamera
    /\ IdleXfer
    /\ IdleWr
    /\ IdleChunk
    /\ IdleReady
    /\ IdleInfo
    /\ rx = <<>>
    /\ sent = 0
    /\ pc = "sc"
    /\ ret = -1
    /\ call \in ModeCalls
    /\ items = <<Str(<<"#">>)>> \o ModeCommand(call) \o <<Str(<<"\r", "\n">>)>>
    /\ nprinted = 0
    /\ out = <<>>
    /\ flushed = FALSE
    /\ outAtFlush = <<>>

SpecMode == InitMode /\ [][NextCmd]_vars


-----------------------------------------------------------------------------
(* getCameraInfoString, getCameraInfoInt *)

\* The stream operations used here belong to the Arduino core: find(target)
\* reads until the characters read end with target or a read times out;
\* readStringUntil(c) and readBytesUntil(c, buf, n) read until c (which is
\* read and dropped), a timeout, or n characters stored.

\* lines of an info dump, each sent with CR LF after it
L_quality == <<"#", "q", "u", "a", "l", "i", "t", "y", ":", "7", "7">>
L_wb_offset == <<"#", "w", "b", "_", "o", "f", "f", "s", "e", "t", ":", "1", "0", ",", "2", "0", ",", "3", "0">>
L_af_point == <<"#", "a", "f", "_", "p", "o", "i", "n", "t", ":", "1", "0", "0", ",", "2", "0", "0", ",", "3", "0", "0">>
InfoLines == {L_quality, L_wb_offset, L_af_point}
CRLF == <<"\r", "\n">>

\* the most lines in a dump
MaxLines == 2
\* the most skips a caller asks for
MaxSkips == 2

RECURSIVE DumpsOf(_)
DumpsOf(n) ==
    IF n = 0 THEN {<<>>}
    ELSE LET shorter == DumpsOf(n - 1)
         IN  shorter \cup {d \o l \o CRLF : d \in shorter, l \in InfoLines}
Dumps == DumpsOf(MaxLines)

\* the start tags callers search for; the last is in no dump
T_quality == <<"#", "q", "u", "a", "l", "i", "t", "y", ":">>
T_wb_offset == <<"#", "w", "b", "_", "o", "f", "f", "s", "e", "t", ":">>
T_af_point == <<"#", "a", "f", "_", "p", "o", "i", "n", "t", ":">>
T_zoom == <<"#", "z", "o", "o", "m", ":">>
StartTags == {T_quality, T_wb_offset, T_af_point, T_zoom}
EndTags == {"\r", ","}
StreamTimeouts == {1000, 50}

\* isspace, on characters
IsSpaceChar(c) == c \in {" ", "\t", "\n", "\r"}

\* atol: leading white space, an optional sign, then decimal digits
\* LONG_MAX of a long of 32 bits
LongMax == 2147483647
\* half a long: the arithmetic below is done on halves of 16 bits
HalfWord == 65536

\* the digits  t  accumulated as atol() does in a long of 32 bits, kept as
\* two halves, with a note of whether the number outgrew LONG_MAX
RECURSIVE Accumulate(_)
Accumulate(t) ==
    IF t = <<>> THEN [hi |-> 0, lo |-> 0, ovf |-> FALSE]
    ELSE LET a == Accumulate(SubSeq(t, 1, Len(t) - 1))
             d == CHOOSE n \in 0..9 : DigitChars[n + 1] = t[Len(t)]
             l == a.lo * 10 + d
             h == a.hi * 10 + (l \div HalfWord)
         IN  [hi |-> h % HalfWord, lo |-> l % HalfWord,
              ovf |-> a.ovf \/ h >= HalfWord \div 2]

\* the two halves read as a signed long
Wrap32(t) ==
    LET a == Accumulate(t)
    IN  IF a.hi >= HalfWord \div 2 THEN (a.hi - HalfWord) * HalfWord + a.lo
        ELSE a.hi * HalfWord + a.lo

\* where the digits of  t  start: after white space and a sign
NumberStart(t) ==
    LET RECURSIVE Start(_)
        Start(n) == IF n <= Len(t) /\ IsSpaceChar(t[n]) THEN Start(n + 1) ELSE n
        b == Start(1)
    IN  IF b <= Len(t) /\ t[b] \in {"-", "+"} THEN b + 1 ELSE b

\* the number in  t  does not fit a long
AtoLOverflows(t) == Accumulate(DigitRun(t, NumberStart(t))).ovf

\* atol(buf), in a long of 32 bits that wraps
AtoL(t) ==
    LET d == NumberStart(t)
        neg == d >= 2 /\ t[d - 1] = "-"
        v == Wrap32(DigitRun(t, d))
    IN  IF neg THEN 0 - v ELSE v

\* char buf[11]
InfoBufSize == 11

\* the value returned whatever the count of characters read
InfoIntAlways(t) == AtoL(t)

\* uint32_t resp = -1; if (bytes_read && bytes_read < 11) resp = atol(buf);
\* return resp  (a long of 32 bits)
InfoInt(t) == IF Len(t) >= 1 /\ Len(t) < InfoBufSize THEN AtoL(t) ELSE -1

\* the camera pauses, for longer than any read timeout, before the next character
Paused == stallKind = "late" /\ delivered = stallAt /\ ~stallDone
\* timedRead() gets a character
CharReady == wire /= <<>> /\ ~Paused

\* timedRead() returns the next character
TakeChar ==
    /\ CharReady
    /\ wire' = Tail(wire)
    /\ delivered' = delivered + 1
    /\ UNCHANGED <<now, stallDone>>

\* timedRead() returns -1 after the stream's timeout
ReadTimesOut ==
    /\ ~CharReady
    /\ now' = now + streamTimeout
    /\ stallDone' = (stallDone \/ Paused)
    /\ UNCHANGED <<wire, delivered>>

\* what the actions of the two functions leave alone
InfoFrame ==
    UNCHANGED <<img, pad, hdr, latency, stallKind, stallAt, lastSent, sentEnd, xferLocals,
                cmd, ncmd, rx, sent, wrVars, readyVars, cmdVars, buf, offset, length,
                entry_timeout, firstBytes, variant, searchStartTag, searchEndTag,
                numberSkips, searchSkipTag, dump>>

\* sendCommand("get_info"), and the wait for the response:
\* while (!_stream->available() && millis() - start_time < 5000L);
InfoSend ==
    /\ pc = "gi"
    /\ InfoFrame
    /\ wire' = dump
    /\ now' = IF dump = <<>> THEN now + ResponseTimeout ELSE now
    /\ pc' = "gi_find"
    /\ UNCHANGED <<delivered, stallDone, ret, streamTimeout, prev_timeout, skips, scanBuf,
                   resp, found>>

\* 0 in place of the sentinel
InfoNotFoundZero == IF variant = "string" THEN <<>> ELSE 0

\* the value returned when the start tag is not found: "" or -1
InfoNotFound == IF variant = "string" THEN <<>> ELSE -1

\* _stream->find(searchStartTag): one timedRead(). When the tag is found:
\* prev_timeout = getTimeout(); setTimeout(15); skips = numberSkips.
InfoFindStart ==
    /\ pc = "gi_find"
    /\ InfoFrame
    /\ \/ /\ TakeChar
          /\ LET sb == Append(scanBuf, Head(wire))
             IN  IF EndsWith(sb, searchStartTag)
                 THEN /\ found' = TRUE
                      /\ prev_timeout' = streamTimeout
                      /\ streamTimeout' = ChunkReadTimeout
                      /\ skips' = numberSkips
                      /\ scanBuf' = <<>>
                      /\ pc' = IF numberSkips > 0 THEN "gi_skip" ELSE "gi_read"
                 ELSE /\ scanBuf' = sb
                      /\ UNCHANGED <<found, prev_timeout, streamTimeout, skips, pc>>
          /\ ret' = ret
       \/ /\ ReadTimesOut
          /\ ret' = InfoNotFound
          /\ pc' = "done"
          /\ UNCHANGED <<found, prev_timeout, streamTimeout, skips, scanBuf>>
    /\ UNCHANGED resp

\* for (skips = numberSkips; skips; skips--) _stream->find(searchSkipTag):
\* one timedRead(); a find that times out counts as a skip
InfoSkip ==
    /\ pc = "gi_skip"
    /\ InfoFrame
    /\ \/ /\ TakeChar
          /\ LET sb == Append(scanBuf, Head(wire))
             IN  IF EndsWith(sb, searchSkipTag)
                 THEN /\ skips' = skips - 1
                      /\ scanBuf' = <<>>
                      /\ pc' = IF skips = 1 THEN "gi_read" ELSE "gi_skip"
                 ELSE /\ scanBuf' = sb
                      /\ UNCHANGED <<skips, pc>>
       \/ /\ ReadTimesOut
          /\ skips' = skips - 1
          /\ scanBuf' = <<>>
          /\ pc' = IF skips = 1 THEN "gi_read" ELSE "gi_skip"
    /\ UNCHANGED <<ret, found, prev_timeout, streamTimeout, resp>>

\* readStringUntil(searchEndTag) / readBytesUntil(searchEndTag, buf, 11):
\* one timedRead(); the int variant stops with 11 characters stored
InfoReadValue ==
    /\ pc = "gi_read"
    /\ InfoFrame
    /\ \/ /\ TakeChar
          /\ IF Head(wire) = searchEndTag
             THEN /\ resp' = resp
                  /\ pc' = "gi_drain"
             ELSE /\ resp' = Append(resp, Head(wire))
                  /\ pc' = IF variant = "int" /\ Len(resp) + 1 >= InfoBufSize
                           THEN "gi_drain" ELSE "gi_read"
       \/ /\ ReadTimesOut
          /\ resp' = resp
          /\ pc' = "gi_drain"
    /\ UNCHANGED <<ret, found, prev_timeout, streamTimeout, skips, scanBuf>>

\* the value returned once the start tag was found
InfoValue == IF variant = "string" THEN resp ELSE InfoInt(resp)

\* the values the call may return once the start tag was found: atol()'s
\* behaviour is undefined when the number does not fit a long, and the C
\* libraries of the targets either wrap (avr-libc) or saturate (newlib)
InfoReturns ==
    IF variant = "string" THEN {resp}
    ELSE IF Len(resp) >= 1 /\ Len(resp) < InfoBufSize /\ AtoLOverflows(resp)
         THEN {InfoValue, LongMax}
         ELSE {InfoValue}

\* the loop that reads the rest of the dump, left out
DrainReadsNothing == FALSE

\* find('#') in the loop that reads the rest of the dump gets a character
DrainReads == CharReady

\* while (_stream->find('#')): one timedRead(); when it times out,
\* setTimeout(prev_timeout) and return resp
InfoDrainFind ==
    /\ pc = "gi_drain"
    /\ InfoFrame
    /\ \/ /\ DrainReads
          /\ TakeChar
          /\ pc' = IF Head(wire) = "#" THEN "gi_line" ELSE "gi_drain"
          /\ UNCHANGED <<ret, streamTimeout>>
       \/ /\ ~DrainReads
          /\ now' = now + streamTimeout
          /\ stallDone' = (stallDone \/ Paused)
          /\ UNCHANGED <<wire, delivered>>
          /\ streamTimeout' = RestoredTimeout(prev_timeout)
          /\ ret' \in InfoReturns
          /\ pc' = "done"
    /\ UNCHANGED <<found, prev_timeout, skips, scanBuf, resp>>

\* { _stream->readStringUntil('\n'); }: one timedRead()
InfoDrainLine ==
    /\ pc = "gi_line"
    /\ InfoFrame
    /\ \/ /\ TakeChar
          /\ pc' = IF Head(wire) = "\n" THEN "gi_drain" ELSE "gi_line"
       \/ /\ ReadTimesOut
          /\ pc' = "gi_drain"
    /\ UNCHANGED <<ret, found, prev_timeout, streamTimeout, skips, scanBuf, resp>>

\* A call of getCameraInfoString / getCameraInfoInt(searchStartTag,
\* searchEndTag, numberSkips, searchSkipTag); the camera may pause once in
\* the middle of its dump.
InitInfo ==
    /\ now = 0
    /\ wire = <<>>
    /\ delivered = 0
    /\ img = <<>>
    /\ pad = 0
    /\ hdr = <<0, 0>>
    /\ latency = 0
    /\ dump \in Dumps
    /\ stallKind \in {"none", "late"}
    /\ stallAt \in 0..Len(dump)
    /\ stallKind = "none" => stallAt = 0
    /\ stallKind = "late" => stallAt >= 1 /\ stallAt < Len(dump)
    /\ stallDone = FALSE
    /\ lastSent = -1
    /\ sentEnd = FALSE
    /\ IdleXfer
    /\ IdleWr
    /\ IdleReady
    /\ IdleCmd
    /\ rx = <<>>
    /\ sent = 0
    /\ pc = "gi"
    /\ ret = -1
    /\ buf = <<>>
    /\ offset = 0
    /\ length = 0
    /\ streamTimeout \in StreamTimeouts
    /\ prev_timeout = 0
    /\ entry_timeout = streamTimeout
    /\ firstBytes = -1
    /\ variant \in {"string", "int"}
    /\ searchStartTag \in StartTags
    /\ searchEndTag \in EndTags
    /\ numberSkips \in 0..MaxSkips
    /\ searchSkipTag = <<",">>
    /\ skips = 0
    /\ scanBuf = <<>>
    /\ resp = <<>>
    /\ found = FALSE

NextInfo ==
    \/ InfoSend
    \/ InfoFindStart
    \/ InfoSkip
    \/ InfoReadValue
    \/ InfoDrainFind
    \/ InfoDrainLine

SpecInfo == InitInfo /\ [][NextInfo]_vars

-----------------------------------------------------------------------------
(* getCameraInfoInt("#serial_id:"), as getCameraSerialNumber calls it *)

T_serial_id == <<"#", "s", "e", "r", "i", "a", "l", "_", "i", "d", ":">>

\* the fields the camera may report: empty, of 1 to 10 characters (signed,
\* with leading zeros, up to LONG_MAX and beyond it), and of 11 and 12
NumFields ==
    {<<>>, <<"-", "5">>, <<"0", "0", "4", "2">>,
     <<"2", "1", "4", "7", "4", "8", "3", "6", "4", "9">>,
     <<"4", "0", "0", "0", "0", "0", "0", "0", "0", "0">>,
     <<"9", "9", "9", "9", "9", "9", "9", "9", "9", "9">>,
     <<"1", "2", "3", "4", "5", "6", "7", "8", "9", "0", "1">>,
     <<"1", "2", "3", "4", "5", "6", "7", "8", "9", "0", "1", "2">>}
        \cup {PrintNumber(n) : n \in {7, 1234567890, LongMax}}

InitInt ==
    /\ now = 0
    /\ wire = <<>>
    /\ delivered = 0
    /\ img = <<>>
    /\ pad = 0
    /\ hdr = <<0, 0>>
    /\ latency = 0
    /\ \E f \in NumFields : dump = T_serial_id \o f \o CRLF \o L_quality \o CRLF
    /\ stallKind = "none"
    /\ stallAt = 0
    /\ stallDone = FALSE
    /\ lastSent = -1
    /\ sentEnd = FALSE
    /\ IdleXfer
    /\ IdleWr
    /\ IdleReady
    /\ IdleCmd
    /\ rx = <<>>
    /\ sent = 0
    /\ pc = "gi"
    /\ ret = -1
    /\ buf = <<>>
    /\ offset = 0
    /\ length = 0
    /\ streamTimeout \in StreamTimeouts
    /\ prev_timeout = 0
    /\ entry_timeout = streamTimeout
    /\ firstBytes = -1
    /\ variant = "int"
    /\ searchStartTag = T_serial_id
    /\ numberSkips = 0
    /\ searchEndTag = "\r"
    /\ searchSkipTag = <<",">>
    /\ skips = 0
    /\ scanBuf = <<>>
    /\ resp = <<>>
    /\ found = FALSE

NextInt ==
    \/ InfoSend
    \/ InfoFindStart
    \/ InfoReadValue
    \/ InfoDrainFind
    \/ InfoDrainLine

SpecInt == InitInt /\ [][NextInt]_vars

-----------------------------------------------------------------------------
(* getWhiteBalanceOffsetRed / Green / Blue *)

\* "The values are numbers in the range of 8 to 48"
WbMin == 8
WbMax == 48
\* the character ',' as a number
CharComma == 44

\* static_cast<int8_t>(n)
Int8Of(n) == ((n + 128) % 256) - 128

\* static_cast<int8_t>(x) of the value scanned, as written for green and blue
CastOfValue(x, y) == Int8Of(x)

\* static_cast<int8_t>(x, y): the operand is the comma expression  x, y , whose
\* value is  y
CastOfPair(x, y) == Int8Of(y)

\* '#wb_offset:r,g,b'
WbLine(r, g, b) ==
    T_wb_offset \o PrintNumber(r) \o <<",">> \o PrintNumber(g) \o <<",">> \o PrintNumber(b)

\* the end delimiter each getter passes: red the default '\r', green ',',
\* blue '\r'
WbEndTag(k) == IF k = 1 THEN "," ELSE "\r"

\* One of the three getters is called (numberSkips 0: red, 1: green,
\* 2: blue) on a camera whose info dump holds the white balance line
\* between two others.
InitWb ==
    /\ now = 0
    /\ wire = <<>>
    /\ delivered = 0
    /\ img = <<>>
    /\ pad = 0
    /\ hdr = <<0, 0>>
    /\ latency = 0
    /\ \E r \in WbMin..WbMax, g \in {WbMin, WbMax}, b \in {WbMin, WbMax} :
          dump = L_quality \o CRLF \o WbLine(r, g, b) \o CRLF \o L_af_point \o CRLF
    /\ stallKind = "none"
    /\ stallAt = 0
    /\ stallDone = FALSE
    /\ lastSent = -1
    /\ sentEnd = FALSE
    /\ IdleXfer
    /\ IdleWr
    /\ IdleReady
    /\ IdleCmd
    /\ rx = <<>>
    /\ sent = 0
    /\ pc = "gi"
    /\ ret = -1
    /\ buf = <<>>
    /\ offset = 0
    /\ length = 0
    /\ streamTimeout \in StreamTimeouts
    /\ prev_timeout = 0
    /\ entry_timeout = streamTimeout
    /\ firstBytes = -1
    /\ variant = "int"
    /\ searchStartTag = T_wb_offset
    /\ numberSkips \in 0..2
    /\ searchEndTag = WbEndTag(numberSkips)
    /\ searchSkipTag = <<",">>
    /\ skips = 0
    /\ scanBuf = <<>>
    /\ resp = <<>>
    /\ found = FALSE

\* return static_cast<int8_t>(...)
WbReturn ==
    /\ pc = "done"
    /\ variant = "int"
    /\ pc' = "wb_done"
    /\ ret' = IF numberSkips = 0 THEN CastOfPair(ret, CharComma) ELSE CastOfValue(ret, CharComma)
    /\ UNCHANGED <<now, wire, delivered, stallDone, streamTimeout, prev_timeout, skips,
                   scanBuf, resp, found>>
    /\ InfoFrame

NextWb ==
    \/ InfoSend
    \/ InfoFindStart
    \/ InfoSkip
    \/ InfoReadValue
    \/ InfoDrainFind
    \/ InfoDrainLine
    \/ WbReturn

SpecWb == InitWb /\ [][NextWb]_vars

\* The calls that shorten the stream's read timeout: getImageChunk,
\* getCameraInfoString, getCameraInfoInt.
InitTimed == InitChunk \/ InitInfo

NextTimed ==
    \/ ChunkSend
    \/ ChunkAwait
    \/ ChunkReadByte
    \/ ChunkReturn
    \/ InfoSend
    \/ InfoFindStart
    \/ InfoSkip
    \/ InfoReadValue
    \/ InfoDrainFind
    \/ InfoDrainLine

SpecTimed == InitTimed /\ [][NextTimed]_vars

-----------------------------------------------------------------------------
(* Properties of transferImage *)

\* The transport never makes the driver wait: no stall, no latency.
Prompt == stallKind = "none" /\ latency = 0

\* The header bytes are part of no tag.
PlainHeader == hdr = <<1, 1>>

\* The image ends with the end tag 0xFF 0xD9.
EndsWithEndTag ==
    /\ Len(img) >= 2
    /\ img[Len(img) - 1] = TagLead
    /\ img[Len(img)] = TagEnd

\* C1: against a prompt transport that answers every ranged read with 2
\* header bytes (part of no tag) and the requested bytes of an
\* image_size-byte payload ending in 0xFF 0xD9 (zero padding beyond),
\* transferImage returns image_size, has written exactly image_size bytes,
\* and ends before the 120 s deadline.
C1_TaggedImageTransferredWhole ==
    (pc = "done" /\ Prompt /\ pad = 0 /\ PlainHeader /\ EndsWithEndTag)
        => /\ ret = image_size
           /\ Len(sink) = image_size
           /\ now - start_xfer_millis < XferDeadline

\* C2: against a prompt transport that never sends 0xFF 0xD9 and pads with
\* zeros, the session ends through the zero heuristic: eof is set by the
\* first zero byte that arrives once image_size bytes are written, and the
\* call returns image_size with exactly image_size bytes written.
C2_ZeroHeuristicEndsSession ==
    (Prompt /\ pad = 0 /\ ~sentEnd)
        => /\ zeroSeen => (eof /\ eofBy = "zero")
           /\ pc = "done" => /\ ret = image_size
                             /\ Len(sink) = image_size
                             /\ eofBy = "zero"
                             /\ timeouts = 0

\* C2 witness: such a session has returned, for an image of 2 bytes or more.
C2_Witness ==
    /\ pc = "done"
    /\ Prompt /\ pad = 0 /\ ~sentEnd
    /\ image_size >= 2
    /\ zeroSeen
    /\ ret = image_size

\* The transport delivered exactly one byte and then stalled for good.
StalledAfterOneByte == stallKind = "forever" /\ stallAt = 1

\* C3: when the transport delivers one byte and then stalls permanently, the
\* session has not returned before 120 s have elapsed, returns at the first
\* loop test after that, and returns at most image_size.
C3_StallEndsAtDeadline ==
    StalledAfterOneByte
        => /\ pc = "done" => /\ now - start_xfer_millis >= 120000
                             /\ ret <= image_size
           /\ pc /= "done" => now - start_xfer_millis < 120000 + ResponseTimeout
           /\ (pc = "loop" /\ now - start_xfer_millis >= 120000)
                  => (ENABLED XferReturn /\ ~ENABLED XferRound)

\* C3 witness: the session has returned after exactly one byte was read.
C3_Witness ==
    /\ StalledAfterOneByte
    /\ pc = "done"
    /\ total_bytes_read = 1
    /\ delivered = 1

\* C4: no header byte of any response is ever written to the sink.
C4_HeaderNeverWritten == \A n \in 1..Len(sink) : sink[n].pos /= -1

\* C5: once eof has been set in a session, no byte is written to the sink.
C5_NoWriteOnceEofSet == [][eofEver => sink' = sink]_vars

\* C5 as amended: no byte is written to the sink while eof is set; a byte
\* is written again only after a start tag 0xFF 0xD8 has cleared eof.
C5_NoWriteWhileEofSet == [][eof => sink' = sink]_vars

\* C5 witness: eof was set by an end tag and a later byte has been read
\* since, in the same chunk, with eof still set.
C5_Witness ==
    /\ eof
    /\ eofBy = "marker"
    /\ pc = "byte"
    /\ prev_bytes[WindowSlot(total_bytes_read)] /= TagEnd
    /\ bytes_written < bytes_read - start_data_byte

\* C6: the sink never holds more than image_size + 12 bytes.
C6_WrittenWithinSlack == Len(sink) <= image_size + extra_read_buff

-----------------------------------------------------------------------------
(* Properties of waitResponse *)

NonNull(n) == terms[n] /= <<>>

\* No terminator passed is a suffix of another one (or equal to it).
PairwiseNonSuffix ==
    \A m, n \in 1..4 :
        (m /= n /\ NonNull(m) /\ NonNull(n)) => ~EndsWith(terms[m], terms[n])

\* the classification proper: the index returned is that of the one
\* terminator the accumulated text ends with, a terminator at the end of the
\* accumulated text ends the call at once, and 0 is returned at the deadline
ClassifiesBySuffix ==
    /\ (pc = "done" /\ ret >= 1)
          => /\ NonNull(ret)
             /\ EndsWith(data, terms[ret])
             /\ \A n \in 1..4 : (NonNull(n) /\ EndsWith(data, terms[n])) => n = ret
    /\ (pc = "wr" /\ appended > 0)
          => \A n \in 1..4 : ~(NonNull(n) /\ EndsWith(data, terms[n]))
    /\ (pc = "done" /\ ret = 0) => now - startMillis >= timeout_ms

\* C7: for terminators none of which is a suffix of another, waitResponse
\* returns i when r_i is the terminator the accumulated stream ends with, and
\* returns 0 if no terminator appears before the deadline: in a call that
\* returns i >= 1, the byte completing r_i arrived before the deadline.
C7_ClassifiesWithinDeadline ==
    PairwiseNonSuffix
        => /\ ClassifiesBySuffix
           /\ (pc = "done" /\ ret >= 1) => lastArrivedAt - startMillis < timeout_ms

\* C8: when the deadline elapses with no terminator matched, the call
\* returns 0 and data is empty, whatever had been accumulated.
C8_TimeoutClearsBuffer ==
    (pc = "done" /\ index = 0)
        => /\ ret = 0
           /\ data = <<>>
           /\ now - startMillis >= timeout_ms

\* C8 witness: a call has timed out after it had appended text ending in a
\* character that is not white space.
C8_Witness ==
    /\ pc = "done"
    /\ ret = 0
    /\ appended >= 1
    /\ lastChar = CharK

\* C9: waitResponse reads no byte after its deadline: a byte that arrives
\* once timeout_ms have elapsed since entry is left unread, also when bytes
\* keep arriving without a gap.
C9_NoReadAfterDeadline ==
    [][nread' > nread => Head(rxAt) - startMillis < timeout_ms]_vars

-----------------------------------------------------------------------------
(* Properties of getImageChunk *)

\* C10: getImageChunk never stores more than length bytes in buf, and the
\* count it returns never exceeds length.
C10_ChunkWithinLength ==
    /\ Len(buf) <= length
    /\ pc = "done" => ret <= length

\* C10 witness: the call has returned with buf full while the stream held
\* more bytes.
C10_Witness ==
    /\ pc = "done"
    /\ ret = length
    /\ Len(buf) = length
    /\ rx /= <<>> \/ wire /= <<>>

\* C11: getImageChunk discards exactly the 2 header bytes: buf holds the
\* bytes of the response from the third one on, in order, whatever the
\* arrival times of the response bytes.
C11_BufIsPayload ==
    \A n \in 1..Len(buf) : buf[n] = PayByte(offset + n - 1)

\* C12: when nothing has arrived within 5 s of the command, getImageChunk
\* returns 0 and buf is untouched; the count returned is the count stored,
\* short or not, and a call sends exactly one command.
C12_NoResponseReturnsZero ==
    /\ ncmd <= 1
    /\ pc = "done" => /\ ncmd = 1
                      /\ ret = Len(buf)
                      /\ firstBytes = 0 => (ret = 0 /\ buf = <<>>)

\* C12 witness: a call has returned 0 after 5 s without a byte, the
\* response still on its way.
C12_Witness ==
    /\ pc = "done"
    /\ firstBytes = 0
    /\ ret = 0
    /\ wire /= <<>>
    /\ now >= ResponseTimeout

-----------------------------------------------------------------------------
(* Properties of waitForReady *)

\* C13: when the status queries answer BUSY, BUSY, then OK, waitForReady
\* returns a time that is positive, greater than twice the 100 ms poll
\* delay, and less than the caller's timeout.
C13_BusyBusyOkElapsed ==
    (pc = "done" /\ recent = <<BUSY, BUSY, OK>>)
        => /\ ret > 0
           /\ ret > 2 * 100
           /\ ret < timeout

\* C14: waitForReady returns the milliseconds waited when the camera
\* reported OK or NONE and 0 when it timed out, and 0 is returned only when
\* no OK or NONE status was seen.
C14_ZeroMeansTimedOut ==
    pc = "done"
        => /\ sawTerminal => ret = now - start_millis
           /\ ~sawTerminal => ret = 0
           /\ ret = 0 => ~sawTerminal

\* C15: waitForReady calls getStatus only while the last status is neither
\* OK nor NONE and the caller's timeout has not been exceeded, and not
\* before 100 ms have passed since a status other than OK and NONE came back.
C15_PollsOnlyWhileNotReady ==
    [][nqueries' > nqueries
          => /\ camera_status \notin {OK, NONE}
             /\ ~sawTerminal
             /\ now - start_millis < timeout
             /\ answerAt >= 0 => now >= answerAt + 100]_vars

\* C15 witness: a run has polled after an ERROR, a BUSY and a silent
\* camera, was answered NONE, and has returned.
C15_Witness ==
    /\ pc = "done"
    /\ nqueries = 4
    /\ recent[4] = NONE
    /\ {recent[1], recent[2], recent[3]} = {NO_RESPONSE, ERROR, BUSY}

-----------------------------------------------------------------------------
(* Properties of sendCommand *)

\* the arguments of the call, between "#" and CR LF
CmdArgs == SubSeq(items, 2, Len(items) - 1)

\* C16: sendCommand has written exactly '#', the command name, the
\* arguments in order with their separators, then CR LF, and has flushed
\* after the last character: for ("set_quality", '=', 90) the characters are
\* #set_quality=90 CR LF, a number is written as the decimal digits of its
\* value, and without arguments no '=' is written.
C16_CommandBytes ==
    pc = "done"
        => /\ flushed /\ outAtFlush = out
           /\ out[1] = "#"
           /\ SubSeq(out, Len(out) - 1, Len(out)) = <<"\r", "\n">>
           /\ LET name == CmdArgs[1].text
                  rest == SubSeq(out, 2 + Len(name), Len(out) - 2)
              IN  /\ SubSeq(out, 2, 1 + Len(name)) = name
                  /\ Len(CmdArgs) = 1 => rest = <<>>
                  /\ Len(CmdArgs) = 3
                        => /\ rest[1] = "="
                           /\ DigitRun(rest, 2) = SubSeq(rest, 2, Len(rest))
                           /\ DigitsValue(SubSeq(rest, 2, Len(rest))) = CmdArgs[3].num
                  /\ Len(CmdArgs) = 7
                        => LET o == DigitRun(rest, 2)
                               l == DigitRun(rest, 3 + Len(o))
                           IN  /\ rest[1] = "="
                               /\ DigitsValue(o) = CmdArgs[3].num /\ o /= <<>>
                               /\ rest[2 + Len(o)] = ","
                               /\ DigitsValue(l) = CmdArgs[5].num /\ l /= <<>>
                               /\ SubSeq(rest, 3 + Len(o) + Len(l), Len(rest))
                                     = <<",", "R", "A", "W">>
           /\ CmdArgs = <<Str(T_set_quality), Chr("="), Num(90)>>
                 => out = <<"#", "s", "e", "t", "_", "q", "u", "a", "l", "i", "t", "y",
                            "=", "9", "0", "\r", "\n">>
           /\ CmdArgs = <<Str(T_take_snapshot)>>
                 => out = <<"#", "t", "a", "k", "e", "_", "s", "n", "a", "p", "s", "h",
                            "o", "t", "\r", "\n">>

\* C16 witness: sendCommand("set_quality", '=', 90) has returned.
C16_Witness ==
    /\ pc = "done"
    /\ CmdArgs = <<Str(T_set_quality), Chr("="), Num(90)>>
    /\ Len(out) = 17

-----------------------------------------------------------------------------
(* Properties of getCameraInfoString, getCameraInfoInt *)

\* where the first occurrence of  tag  in  t  ends; 0 if there is none
FirstEnd(t, tag) ==
    LET ends == {n \in Len(tag)..Len(t) : SubSeq(t, n - Len(tag) + 1, n) = tag}
    IN  IF ends = {} THEN 0 ELSE CHOOSE n \in ends : \A m \in ends : n <= m

\* t  up to its first  c  (all of it if there is none)
RECURSIVE UpTo(_, _)
UpTo(t, c) == IF t = <<>> \/ Head(t) = c THEN <<>> ELSE <<Head(t)>> \o UpTo(Tail(t), c)

\* what follows the k-th  c  in  t
RECURSIVE SkipPast(_, _, _)
SkipPast(t, c, k) ==
    IF k = 0 \/ t = <<>> THEN t
    ELSE SkipPast(Tail(t), c, IF Head(t) = c THEN k - 1 ELSE k)

\* how many  c  there are in  t
RECURSIVE CountOf(_, _)
CountOf(t, c) ==
    IF t = <<>> THEN 0 ELSE (IF Head(t) = c THEN 1 ELSE 0) + CountOf(Tail(t), c)

\* the text of the line that carries the start tag, after the tag
Field ==
    LET e == FirstEnd(dump, searchStartTag)
    IN  UpTo(SubSeq(dump, e + 1, Len(dump)), "\r")

\* that text from the value after numberSkips commas on
FieldRest == SkipPast(Field, ",", numberSkips)

\* that value
FieldValue == DigitsValue(UpTo(FieldRest, ","))

\* getCameraInfoInt has returned from a dump that came without a pause and
\* holds the start tag, the line holding a value after numberSkips commas;
\* the end delimiter is CR
IntScanned ==
    /\ pc = "done"
    /\ variant = "int"
    /\ stallKind = "none"
    /\ searchEndTag = "\r"
    /\ FirstEnd(dump, searchStartTag) > 0
    /\ CountOf(Field, ",") >= numberSkips

C18_NothingLeftUnread == (pc = "done" /\ found) => wire = <<>>

\* C18, amended: when the start tag was found and the dump came without a
\* pause longer than the read timeout, no character of it is left unread
\* when the call returns.
C18_NothingLeftUnlessPaused ==
    (pc = "done" /\ found /\ stallKind = "none") => wire = <<>>

\* C18 witness: a call has returned the value of the first of two lines of
\* a dump that came without a pause.
C18_Witness ==
    /\ pc = "done"
    /\ found
    /\ stallKind = "none"
    /\ dump = L_quality \o CRLF \o L_af_point \o CRLF
    /\ searchStartTag = T_quality
    /\ delivered = Len(dump)

\* C19: when getImageChunk, getCameraInfoString or getCameraInfoInt
\* returns, on any path, the stream's read timeout is what it was when the
\* call was entered.
C19_TimeoutRestored == pc = "done" => streamTimeout = entry_timeout

\* C19 witness: getCameraInfoInt has returned -1 for a field of 11
\* characters, read with the timeout shortened from 1000 ms.
C19_Witness ==
    /\ pc = "done"
    /\ variant = "int"
    /\ found
    /\ Len(resp) = InfoBufSize
    /\ prev_timeout = 1000
    /\ ret = -1

-----------------------------------------------------------------------------
(* Properties of transferImage's outer loop *)

\* C20: transferImage sends a ranged-read command only while eof is false
\* and less than 120000 ms have passed since the session started; with eof
\* set when a round ends, or the deadline passed, no further command is sent.
C20_CommandOnlyWhileOpen ==
    [][/\ ncmd' > ncmd => (~eof /\ now - start_xfer_millis < XferDeadline)
       /\ (pc = "loop" /\ (eof \/ now - start_xfer_millis >= XferDeadline))
              => (ncmd' = ncmd /\ pc' = "done")]_vars

\* C20 witness: a session of at least two commands has ended with eof set
\* before the deadline.
C20_Witness ==
    /\ pc = "done"
    /\ ncmd >= 2
    /\ eof
    /\ now - start_xfer_millis < XferDeadline

\* every round of the session takes time: the camera answers after a
\* delay, or the transport is dead and every wait runs out
ClockAdvances == latency > 0 \/ stallKind = "forever"

\* C21: every transferImage session eventually returns when the clock
\* advances in every round, whatever the transport does (silence, a stall
\* inside a chunk, non-zero bytes without end and no end tag); and every
\* session returns or reaches the number of commands the model follows.
C21_SessionReturns ==
    /\ ClockAdvances => <>(pc = "done")
    /\ <>(pc = "done" \/ ncmd = MaxCommands)

\* C21 witness: a session fed non-zero bytes without end, eof never set,
\* has returned once the deadline had passed.
C21_Witness ==
    /\ pc = "done"
    /\ pad /= 0
    /\ ~eofEver
    /\ stallKind = "none"
    /\ now - start_xfer_millis >= XferDeadline
    /\ total_bytes_read > image_size + start_data_byte + extra_read_buff

-----------------------------------------------------------------------------
(* Properties of the white balance getters *)

\* C22: getWhiteBalanceOffsetRed returns the first comma-separated value
\* of the '#wb_offset:' line of the info dump, for every value 8..48.
C22_RedIsFirstValue ==
    (pc = "wb_done" /\ numberSkips = 0) => ret = FieldValue

\* what holds of the three getters: green and blue return their values,
\* red returns 44 whatever the camera reports
WbGetters ==
    pc = "wb_done" => ret = (IF numberSkips = 0 THEN CharComma ELSE FieldValue)

-----------------------------------------------------------------------------
(* Properties of transferImage's tag detection and bookkeeping *)

\* the step reads a byte from the transport
ReadsByte == pc = "byte" /\ total_bytes_read' = total_bytes_read + 1

\* the byte it reads
ByteRead == Head(wire).v

\* C23: whenever 0xD8 is read immediately after 0xFF, eof is false right
\* after that byte has been processed, also when eof had been set earlier
\* in the session.
C23_StartTagReopens ==
    [][(ReadsByte /\ ByteRead = TagStart /\ lastRead = TagLead) => ~eof']_vars

\* C23 witness: eof was set by an end tag and a later 0xFF 0xD8 has
\* cleared it.
C23_Witness ==
    /\ eofEver
    /\ ~eof
    /\ lastRead = TagStart
    /\ eofBy = "none"
    /\ pc = "byte"

\* C24: eof is set right after a 0xD9 is read whose preceding read byte was
\* 0xFF, and eof becomes true in no other way than by this tag or by a zero
\* byte read once total_bytes_written >= image_size.
C24_EofOnlyByTagOrZero ==
    [][/\ (ReadsByte /\ ByteRead = TagEnd /\ lastRead = TagLead) => eof'
       /\ (~eof /\ eof')
             => /\ ReadsByte
                /\ \/ ByteRead = TagEnd /\ lastRead = TagLead
                   \/ ByteRead = 0 /\ total_bytes_written >= image_size]_vars

\* C24 witness: in a session behind a plain header, eof stands set by an
\* end tag read in the second round or later, no zero byte having set it.
C24_Witness ==
    /\ eof
    /\ eofBy = "marker"
    /\ ~zeroSeen
    /\ lastRead = TagEnd
    /\ hdr = <<1, 1>>
    /\ stallKind = "none"
    /\ chunk_number >= 1

\* a round has ended in silence: the step leaves the wait for the outer loop
SilentRound == pc = "wait" /\ pc' = "loop"

\* C25: when no byte arrives within 5 s of a ranged-read command the round
\* changes none of next offset, bytes_remaining, the totals read and
\* written, the chunk counter and the sink, and the next command, if there
\* is one, asks for the same offset and length.
C25_SilenceIsSoftRetry ==
    [][/\ SilentRound
          => /\ now' - now = ResponseTimeout
             /\ UNCHANGED <<start_next_chunk, bytes_remaining, total_bytes_read,
                            total_bytes_written, chunk_number, sink>>
       /\ (pc = "loop" /\ ncmd >= 1 /\ bytes_read = 0 /\ ncmd' > ncmd) => cmd' = cmd]_vars

\* C25 witness: a second command has followed a round of silence.
C25_Witness ==
    /\ pc = "wait"
    /\ ncmd = 2
    /\ timeouts = 1
    /\ total_bytes_read = 0
    /\ stallKind = "late"

\* a round in which a response arrived ends: the step leaves the inner loop
RoundEnds == pc = "byte" /\ pc' /= "byte"

\* the image bytes the round has read: what it read less the two header bytes
PayloadRead == Max(bytes_read - start_data_byte, 0)

\* C26: after every round in which a response arrived, bytes_remaining has
\* gone down and the next offset has gone up by the number of image bytes
\* read in that round, and the chunk counter has gone up by one.
C26_BookkeepingByBytesRead ==
    [][RoundEnds
          => /\ bytes_remaining' = bytes_remaining - PayloadRead
             /\ start_next_chunk' = start_next_chunk + PayloadRead
             /\ chunk_number' = chunk_number + 1]_vars

\* what holds of the bookkeeping: the amount is min(bytes_read, bytesToRead),
\* bytes_read counting the two header bytes
BookkeepingByMin ==
    [][RoundEnds
          => /\ bytes_remaining' = bytes_remaining - Min(bytes_read, bytesToRead)
             /\ start_next_chunk' = start_next_chunk + Min(bytes_read, bytesToRead)
             /\ chunk_number' = chunk_number + 1]_vars

\* the round that has just ended read or wrote another number of bytes
\* than it asked for
Mismatch ==
    bytes_read - start_data_byte /= bytesToRead \/ bytes_written /= bytesToRead

\* C27: a round whose bytes read or written do not match the requested
\* length does not end the session: with eof false and the deadline not
\* passed, the next step is a further command for the updated offset and
\* remaining count.
C27_MismatchContinues ==
    [][(/\ pc = "loop"
        /\ bytes_read >= 1
        /\ Mismatch
        /\ ~eof
        /\ now - start_xfer_millis < XferDeadline)
          => /\ ncmd' = ncmd + 1
             /\ cmd' = <<start_next_chunk, Min(chunk_size, Max(bytes_remaining, 1))>>
             /\ pc' = "wait"]_vars

\* C27 witness: a command has followed a round cut short by a starvation.
C27_Witness ==
    /\ pc = "wait"
    /\ ncmd = 2
    /\ timeouts = 1
    /\ total_bytes_read >= 1
    /\ total_bytes_read < start_data_byte + 1
    /\ cmd[1] = total_bytes_read

\* the deadline is found exceeded by the check inside the inner loop
DeadlinePassed == now - start_xfer_millis > XferDeadline

\* C28: when the deadline is found exceeded while a chunk is being read,
\* total_bytes_written is set to bytes_remaining, the rest of the chunk is
\* still read, and no further command is sent.
C28_DeadlineInsideChunk ==
    [][/\ (pc = "loop" /\ DeadlinePassed) => (pc' = "done" /\ ncmd' = ncmd)
       /\ (pc = "byte" /\ DeadlinePassed)
          => /\ ReadsByte => total_bytes_written' = bytes_remaining
             /\ ReadsByte => UNCHANGED <<bytes_remaining, start_next_chunk>>
             /\ (i < bytesToRead + start_data_byte /\ Delivers) => (ReadsByte /\ pc' = "byte")
             /\ pc' \in {"byte", "loop", "done"}
             /\ ncmd' = ncmd]_vars

\* C28 witness: the session has returned after a chunk read whole past the
\* deadline, its total written standing at bytes_remaining as it was during
\* that chunk.
C28_Witness ==
    /\ pc = "done"
    /\ ~eof
    /\ now - start_xfer_millis > XferDeadline
    /\ bytes_read = bytesToRead + start_data_byte
    /\ total_bytes_written = bytes_remaining + Min(bytes_read, bytesToRead)

-----------------------------------------------------------------------------
(* Properties of waitResponse's matching *)

\* data ends with the n-th terminator, which is not a null pointer
Matches(n) == NonNull(n) /\ EndsWith(data, terms[n])

\* C29: waitResponse tests the terminators in the order 1..4 after every
\* appended byte and returns at once on the first match: the index returned
\* is the lowest one whose terminator data ends with, a null terminator is
\* never matched, and the call does not go on reading with a terminator
\* at the end of what it has appended.
C29_LowestIndexWins ==
    /\ (pc = "done" /\ ret >= 1)
          => /\ Matches(ret)
             /\ \A n \in 1..(ret - 1) : ~Matches(n)
    /\ (pc = "wr" /\ appended > 0) => \A n \in 1..4 : ~Matches(n)

\* C29 witness: a call has returned 2, its first terminator null and data
\* ending with a later terminator as well as with the second.
C29_Witness ==
    /\ pc = "done"
    /\ ret = 2
    /\ terms[1] = <<>>
    /\ \E n \in 3..4 : Matches(n) /\ terms[n] /= terms[2]

\* C30: waitResponse skips a byte it reads only when the byte is zero;
\* every other byte, 0x01..0xFF, is appended to data.
C30_OnlyZeroSkipped ==
    [][(pc = "wr" /\ nread' > nread /\ Head(rx) /= 0) => appended' = appended + 1]_vars

\* what holds of the skipping: the bytes 0x01..0x7F are appended, zero and
\* the bytes 0x80..0xFF are skipped
SkipsZeroAndHighBytes ==
    [][(pc = "wr" /\ nread' > nread)
          => appended' = (IF Head(rx) \in 1..127 THEN appended + 1 ELSE appended)]_vars

-----------------------------------------------------------------------------
(* Properties of the info scanner's failure paths *)

\* C31: when the start tag does not occur in the info dump, or nothing is
\* received, getCameraInfoString returns the empty string and
\* getCameraInfoInt returns -1, and no value is read from the dump.
C31_MissReturnsSentinel ==
    (pc = "done" /\ FirstEnd(dump, searchStartTag) = 0)
        => /\ ~found
           /\ resp = <<>>
           /\ ret = (IF variant = "string" THEN <<>> ELSE -1)

\* C31 witness: getCameraInfoInt has returned from a dump of two lines,
\* neither of them the line asked for.
C31_Witness ==
    /\ pc = "done"
    /\ variant = "int"
    /\ searchStartTag = T_zoom
    /\ dump = L_quality \o CRLF \o L_wb_offset \o CRLF
    /\ ret = -1

\* a number as its decimal digits, with a sign when negative
NumberText(n) == IF n < 0 THEN <<"-">> \o PrintNumber(0 - n) ELSE PrintNumber(n)

\* the digits of a field without leading zeros, its sign kept
RECURSIVE Canonical(_)
Canonical(t) ==
    IF t /= <<>> /\ Head(t) = "-" THEN <<"-">> \o Canonical(Tail(t))
    ELSE IF Len(t) >= 2 /\ Head(t) = "0" THEN Canonical(Tail(t))
    ELSE t

\* the digits of LONG_MAX
LongMaxText == PrintNumber(LongMax)

\* a field of at most 10 digits stands for a number above LONG_MAX
AboveLongMax(t) ==
    /\ Len(Canonical(t)) = Len(LongMaxText)
    /\ Head(t) /= "-"
    /\ \E n \in 1..Len(LongMaxText) :
          /\ SubSeq(Canonical(t), 1, n - 1) = SubSeq(LongMaxText, 1, n - 1)
          /\ DigitsValue(<<Canonical(t)[n]>>) > DigitsValue(<<LongMaxText[n]>>)

\* C32: getCameraInfoInt returns the integer value of a field of 1 to 10
\* characters before the end delimiter, returns -1 when the field is empty
\* or 11 or more characters are read before the end delimiter, and never
\* stores more than 11 characters in its buffer.
C32_FieldParsedOrSentinel ==
    /\ Len(resp) <= InfoBufSize
    /\ (pc = "done" /\ variant = "int" /\ found)
          => /\ Len(Field) \in 1..10 => NumberText(ret) = Canonical(Field)
             /\ (Len(Field) = 0 \/ Len(Field) >= 11) => ret = -1

\* what holds of the parsing: the value is returned when it fits a long of
\* 32 bits, and another number when it does not
ParsedWhenItFits ==
    /\ Len(resp) <= InfoBufSize
    /\ (pc = "done" /\ variant = "int" /\ found)
          => /\ (Len(Field) \in 1..10 /\ ~AboveLongMax(Field))
                   => NumberText(ret) = Canonical(Field)
             /\ (Len(Field) \in 1..10 /\ AboveLongMax(Field))
                   => NumberText(ret) /= Canonical(Field)
             /\ (Len(Field) = 0 \/ Len(Field) >= 11) => ret = -1

\* C33: the bytes given to the sink are always the first bytes of the
\* payload byte stream (the bytes read that are not header bytes, in the
\* order read), with their values, none of them skipped.
C33_SinkIsPayloadPrefix ==
    /\ Len(sink) <= Len(payload)
    /\ \A n \in 1..Len(sink) : sink[n].v = payload[n].v

\* C34: on every way out of transferImage, also when the 120 s deadline
\* passes in the middle of a chunk, the value returned is the number of
\* bytes that were written to the sink.
C34_ReturnsBytesWritten == pc = "done" => ret = Len(sink)

\* what holds: the count is right when the call returns before the deadline
ReturnsWrittenBeforeDeadline ==
    (pc = "done" /\ now - start_xfer_millis <= XferDeadline) => ret = Len(sink)

\* C35: whenever a round starts, the offset named in its command is the
\* number of payload bytes the session has received so far, after rounds
\* read whole and after rounds cut short alike.
C35_OffsetIsPayloadReceived == pc = "wait" => cmd[1] = Len(payload)

\* what holds: the two are equal as long as every round is read whole
OffsetIsPayloadWithoutGaps ==
    (pc = "wait" /\ stallKind = "none") => cmd[1] = Len(payload)

\* the byte being read is a header byte of a response
ReadsHeaderByte == ReadsByte /\ Head(wire).pos = -1

\* C36: a 0xD9 that follows a 0xFF in the payload stream sets eof wherever
\* the two fall, also when a chunk boundary (and so two header bytes on the
\* wire) lies between them; and a header byte never completes a marker: it
\* neither sets eof as an end marker would nor clears it.
C36_MarkersAreOfThePayload ==
    [][/\ (/\ ReadsByte
           /\ ~ReadsHeaderByte
           /\ ByteRead = TagEnd
           /\ payload /= <<>>
           /\ payload[Len(payload)].v = TagLead) => eof'
       /\ (ReadsHeaderByte /\ eof) => eof'
       /\ (ReadsHeaderByte /\ ~eof /\ eof')
             => (ByteRead = 0 /\ total_bytes_written >= image_size)]_vars

\* C37: while eof is set the inner loop goes on reading the chunk without
\* writing, and leaves the chunk only when request length + 2 characters
\* are consumed or no character came for 10 ms; so when every response
\* arrives whole and without gaps, every round reads its whole response,
\* none waits for a character that was not sent, and nothing is left
\* unread when the call returns.
C37_ChunkDrainedAfterEof ==
    [][/\ (pc = "byte" /\ eof) => sink' = sink
       /\ (pc = "byte" /\ eof /\ pc' /= "byte")
             => \/ i >= bytesToRead + start_data_byte
                \/ now' = now + CharTimeout
       /\ (stallKind = "none" /\ RoundEnds)
             => /\ bytes_read = bytesToRead + start_data_byte
                /\ wire = <<>>
                /\ now' = now
       /\ (stallKind = "none" /\ pc' = "done") => wire' = <<>>]_vars

\* C37 witness: behind a plain header and without gaps the call has
\* returned on an end marker that came in the middle of a chunk: payload
\* bytes after the marker were read and not written, and nothing is left.
C37_Witness ==
    /\ pc = "done"
    /\ stallKind = "none"
    /\ hdr = <<1, 1>>
    /\ eofBy = "marker"
    /\ Len(sink) < Len(payload)
    /\ wire = <<>>

\* C38: waitForReady sends at least one status query before it reports a
\* timeout (returns 0), whatever initial_delay and timeout are, also when
\* initial_delay is not less than timeout.
C38_QueriesBeforeTimeout == (pc = "done" /\ ret = 0) => nqueries >= 1

\* what holds: a query is sent when the initial delay is shorter than the
\* timeout
QueriesWhenDelayIsShorter ==
    (pc = "done" /\ initial_delay < timeout) => nqueries >= 1

\* t  is a run of consecutive characters of  u
IsInfix(t, u) ==
    \E a \in 1..(Len(u) + 1) :
        a + Len(t) - 1 <= Len(u) /\ SubSeq(u, a, a + Len(t) - 1) = t

\* C39: the value getCameraInfoString / getCameraInfoInt take from the dump
\* always lies on the line that carries the start tag: neither the skipping
\* nor the reading goes past the end of that line, also when numberSkips is
\* more than the delimiters the line holds.
C39_ValueFromTaggedLine == (pc = "done" /\ found) => IsInfix(resp, Field)

\* what holds: the value lies on the line when the line holds numberSkips
\* skip delimiters and, behind them, the end delimiter
ValueFromLineWhenDelimitersSuffice ==
    (/\ pc = "done"
     /\ found
     /\ CountOf(Field, ",") >= numberSkips
     /\ searchEndTag = "\r" \/ CountOf(FieldRest, searchEndTag) >= 1)
        => IsInfix(resp, Field)

\* the command line made of the arguments  c
LineOf(c) ==
    LET RECURSIVE Flat(_)
        Flat(t) == IF t = <<>> THEN <<>> ELSE PrintItem(Head(t)) \o Flat(Tail(t))
    IN  <<"#">> \o Flat(c) \o <<"\r", "\n">>

\* the call of the same setter with the enumerator whose mode is named  t
EnumCalls(f, t) ==
    {c \in ModeCalls : /\ c.setter = f
                       /\ c.overload = "enum"
                       /\ c.mode /= <<"OTHER">>
                       /\ t = (IF f = "setNightMode" THEN NightModeText(c.mode)
                               ELSE IRModeText(c.mode))}

\* C40: the overload of setNightMode / setIRLEDMode that takes a string
\* sends, for the name of a mode, the very command line the overload that
\* takes the enumerator sends for that mode.
C40_OverloadsSendSameLine ==
    (pc = "done" /\ call.overload = "string")
        => \A c \in EnumCalls(call.setter, call.mode) : out = LineOf(ModeCommand(c))

\* what holds: the two overloads agree on the value after "=", and the
\* string overloads send it under the name set_resolution
OverloadsSendSameValue ==
    (pc = "done" /\ call.overload = "string")
        => /\ out = <<"#">> \o T_set_resolution \o <<"=">> \o call.mode \o <<"\r", "\n">>
           /\ \A c \in EnumCalls(call.setter, call.mode) :
                 ModeCommand(c)[3] = Str(call.mode)

====
